---- MODULE Spec2Model ----
(***************************************************************************)
(* A model of the snake-chess rules engine (chess.py) and of the turn      *)
(* arbiter (arbiter.py).  Values keep the names of the Python source.      *)
(***************************************************************************)
EXTENDS Integers, Sequences, FiniteSets, TLC

(***************************************************************************)
(* chess.py: positions, pieces, boards                                     *)
(***************************************************************************)

\* The absent piece (Python None on a square, or an unset piece field).
None == [team |-> "-", symbol |-> "-"]

\* The absent position (Python None in a position field).
NoPos == <<-1, -1>>

Piece(team, symbol) == [team |-> team, symbol |-> symbol]

\* `v in range(0, 8)`
InRange(v) == v \in 0..7

\* A BoardState is the dict piece_by_pos; its keys are inserted by
\* BoardState.empty() with x outermost, so key (x, y) is entry x*8 + y + 1.
Idx(pos) == pos[1] * 8 + pos[2] + 1

PosOf(i) == <<(i - 1) \div 8, (i - 1) % 8>>

piece_at(board_state, pos) == board_state[Idx(pos)]

copy_with_piece_at(board_state, pos, piece) ==
    [board_state EXCEPT ![Idx(pos)] = piece]

\* positions_and_pieces, read as the set of occupied keys (dict order is
\* the order of the indices).
positions_and_pieces(board_state) ==
    {i \in 1..64 : board_state[i] # None}

BackRank == <<"R", "N", "B", "Q", "K", "B", "N", "R">>

with_initial_material ==
    [i \in 1..64 |->
        LET x == PosOf(i)[1]
            y == PosOf(i)[2]
        IN  CASE y = 0 -> Piece("W", BackRank[x + 1])
              [] y = 1 -> Piece("W", "P")
              [] y = 6 -> Piece("B", "P")
              [] y = 7 -> Piece("B", BackRank[x + 1])
              [] OTHER -> None]

get_opponent_of(team) == IF team = "W" THEN "B" ELSE "W"

(***************************************************************************)
(* chess.py: moves                                                         *)
(***************************************************************************)

NoMove ==
    [kind |-> "None", from_pos |-> NoPos, to_pos |-> NoPos,
     moved_piece |-> None, captured_pos |-> NoPos, captured_piece |-> None,
     promoted_piece |-> None, rook_pos |-> NoPos, rook_piece |-> None]

Move(from_pos, to_pos, moved_piece, captured_pos, captured_piece) ==
    [kind |-> "Move", from_pos |-> from_pos, to_pos |-> to_pos,
     moved_piece |-> moved_piece, captured_pos |-> captured_pos,
     captured_piece |-> captured_piece,
     promoted_piece |-> None, rook_pos |-> NoPos, rook_piece |-> None]

\* A promotion that is built as a plain move: the pawn stays a pawn.
PawnPromotionMove_as_Move(from_pos, to_pos, moved_piece, promoted_piece, captured_pos, captured_piece) ==
    Move(from_pos, to_pos, moved_piece, captured_pos, captured_piece)

PawnPromotionMove(from_pos, to_pos, moved_piece, promoted_piece, captured_pos, captured_piece) ==
    [kind |-> "PawnPromotionMove", from_pos |-> from_pos, to_pos |-> to_pos,
     moved_piece |-> moved_piece, captured_pos |-> captured_pos,
     captured_piece |-> captured_piece,
     promoted_piece |-> promoted_piece, rook_pos |-> NoPos, rook_piece |-> None]

CastlingMove(from_pos, to_pos, moved_piece, rook_pos, rook_piece) ==
    [kind |-> "CastlingMove", from_pos |-> from_pos, to_pos |-> to_pos,
     moved_piece |-> moved_piece, captured_pos |-> NoPos,
     captured_piece |-> None,
     promoted_piece |-> None, rook_pos |-> rook_pos, rook_piece |-> rook_piece]

\* int(copysign(1, v)) for an integer v (copysign(1, 0) is 1).
copysign1(v) == IF v < 0 THEN -1 ELSE 1

rook_to_pos(move) ==
    <<move.to_pos[1] + copysign1(move.to_pos[1] - move.rook_pos[1]),
      move.rook_pos[2]>>

Move_compute_over_board_state(move, board_state) ==
    LET b1 == IF move.captured_pos # NoPos /\ move.captured_piece # None
              THEN copy_with_piece_at(board_state, move.captured_pos, None)
              ELSE board_state
    IN  copy_with_piece_at(copy_with_piece_at(b1, move.from_pos, None),
                           move.to_pos, move.moved_piece)

compute_over_board_state(move, board_state) ==
    CASE move.kind = "PawnPromotionMove" ->
            copy_with_piece_at(Move_compute_over_board_state(move, board_state),
                               move.to_pos, move.promoted_piece)
      [] move.kind = "CastlingMove" ->
            copy_with_piece_at(
              copy_with_piece_at(
                copy_with_piece_at(
                  copy_with_piece_at(board_state, move.from_pos, None),
                  move.to_pos, move.moved_piece),
                move.rook_pos, None),
              rook_to_pos(move), move.rook_piece)
      [] OTHER -> Move_compute_over_board_state(move, board_state)

(***************************************************************************)
(* chess.py: acts and game states                                          *)
(***************************************************************************)

NoAct == [kind |-> "None", move |-> NoMove, offer_draw |-> FALSE]

MoveAct(move, offer_draw) ==
    [kind |-> "MoveAct", move |-> move, offer_draw |-> offer_draw]

ClaimDrawAct == [kind |-> "ClaimDrawAct", move |-> NoMove, offer_draw |-> FALSE]

SurrenderAct == [kind |-> "SurrenderAct", move |-> NoMove, offer_draw |-> FALSE]

\* A GameState is the chain of its nodes, the root first: node k holds the
\* board and the act that led to it; previous_state is the chain without
\* its last node.
GameState(board_state) == <<[board_state |-> board_state, last_act |-> NoAct]>>

board_of(game_state) == game_state[Len(game_state)].board_state

last_act_of(game_state) == game_state[Len(game_state)].last_act

previous_state(game_state) == SubSeq(game_state, 1, Len(game_state) - 1)

\* The move of the latest MoveAct of the history, whatever acts followed it.
last_move_of_latest_MoveAct(game_state) ==
    LET move_acts == {k \in 1..Len(game_state) : game_state[k].last_act.kind = "MoveAct"}
    IN  IF move_acts = {}
        THEN NoMove
        ELSE game_state[CHOOSE k \in move_acts : \A j \in move_acts : j <= k].last_act.move

last_move_of(game_state) ==
    IF last_act_of(game_state).kind = "MoveAct"
    THEN last_act_of(game_state).move
    ELSE NoMove

\* A history size that counts the root state too.
history_size_counting_root(game_state) == Len(game_state)

history_size(game_state) == Len(game_state) - 1

playing_team(game_state) ==
    IF history_size(game_state) % 2 = 0 THEN "W" ELSE "B"

\* historical_moves stops at the first state without a last_move.
RECURSIVE historical_moves(_)
historical_moves(game_state) ==
    IF last_move_of(game_state) # NoMove
    THEN <<last_move_of(game_state)>> \o historical_moves(previous_state(game_state))
    ELSE <<>>

copy_with_act_applied(game_state, act) ==
    Append(game_state,
           [board_state |-> IF act.kind = "MoveAct"
                            THEN compute_over_board_state(act.move, board_of(game_state))
                            ELSE board_of(game_state),
            last_act |-> act])

(***************************************************************************)
(* chess.py: attacked positions                                            *)
(***************************************************************************)

direction(team) == IF team = "W" THEN 1 ELSE -1

Pawn_get_attacked_positions(team, piece_position) ==
    LET piece_x == piece_position[1]
        piece_y == piece_position[2]
    IN  IF InRange(piece_y + direction(team))
        THEN (IF piece_x - 1 > 0
              THEN {<<piece_x - 1, piece_y + direction(team)>>} ELSE {})
             \cup
             (IF piece_x + 1 < 8
              THEN {<<piece_x + 1, piece_y + direction(team)>>} ELSE {})
        ELSE {}

Rook_sweep_directions == {<<1, 0>>, <<-1, 0>>, <<0, 1>>, <<0, -1>>}

Bishop_sweep_directions == {<<1, 1>>, <<1, -1>>, <<-1, 1>>, <<-1, -1>>}

Queen_sweep_directions == Rook_sweep_directions \cup Bishop_sweep_directions

sweep_directions(symbol) ==
    CASE symbol = "R" -> Rook_sweep_directions
      [] symbol = "B" -> Bishop_sweep_directions
      [] symbol = "Q" -> Queen_sweep_directions
      [] OTHER -> {}

\* The inner loop `for n in range(1, 8)` of SweepingPiece, from step n on.
RECURSIVE SweepFrom(_, _, _, _)
SweepFrom(board_state, piece_position, dir, n) ==
    IF n > 7 THEN {}
    ELSE LET attacked_x == piece_position[1] + dir[1] * n
             attacked_y == piece_position[2] + dir[2] * n
         IN  IF InRange(attacked_x) /\ InRange(attacked_y)
             THEN {<<attacked_x, attacked_y>>} \cup
                  (IF piece_at(board_state, <<attacked_x, attacked_y>>) # None
                   THEN {}
                   ELSE SweepFrom(board_state, piece_position, dir, n + 1))
             ELSE SweepFrom(board_state, piece_position, dir, n + 1)

SweepingPiece_get_attacked_positions(board_state, symbol, piece_position) ==
    UNION {SweepFrom(board_state, piece_position, dir, 1) :
             dir \in sweep_directions(symbol)}

\* A knight that attacks no square.
Knight_attacks_nothing(piece_position) == {}

Knight_get_attacked_positions(piece_position) ==
    LET piece_x == piece_position[1]
        piece_y == piece_position[2]
        first_set == {-1, 1}
        second_set == {-2, 2}
        offsets == (first_set \X second_set) \cup (second_set \X first_set)
    IN  {<<piece_x + o[1], piece_y + o[2]>> :
           o \in {o \in offsets : InRange(piece_x + o[1]) /\ InRange(piece_y + o[2])}}

King_get_attacked_positions(piece_position) ==
    LET piece_x == piece_position[1]
        piece_y == piece_position[2]
        offsets == {o \in {-1, 0, 1} \X {-1, 0, 1} :
                      /\ InRange(piece_x + o[1])
                      /\ ~(o[1] = 0 /\ o[2] = 0)
                      /\ InRange(piece_y + o[2])}
    IN  {<<piece_x + o[1], piece_y + o[2]>> : o \in offsets}

get_attacked_positions(board_state, piece, piece_position) ==
    CASE piece.symbol = "P" -> Pawn_get_attacked_positions(piece.team, piece_position)
      [] piece.symbol \in {"R", "B", "Q"} ->
            SweepingPiece_get_attacked_positions(board_state, piece.symbol, piece_position)
      [] piece.symbol = "N" -> Knight_get_attacked_positions(piece_position)
      [] piece.symbol = "K" -> King_get_attacked_positions(piece_position)
      [] OTHER -> {}

AllSymbols == {"P", "R", "N", "B", "Q", "K"}

\* get_squares_attacked_by_team(team, allowed_pieces); allowed_pieces=None
\* is AllSymbols.  Only the board of the game state is read.
get_squares_attacked_by_team(board_state, team, allowed_pieces) ==
    UNION {get_attacked_positions(board_state, board_state[i], PosOf(i)) :
             i \in {i \in 1..64 : /\ board_state[i] # None
                                  /\ board_state[i].team = team
                                  /\ board_state[i].symbol \in allowed_pieces}}

is_king_checked(board_state, king_team) ==
    LET kings == {i \in 1..64 : board_state[i] = Piece(king_team, "K")}
    IN  IF kings = {} THEN TRUE
        ELSE LET king_pos == PosOf(CHOOSE i \in kings : \A j \in kings : i <= j)
             IN  king_pos \in get_squares_attacked_by_team(
                                 board_state, get_opponent_of(king_team), AllSymbols)

(***************************************************************************)
(* chess.py: move generation                                               *)
(***************************************************************************)

PromotionSymbols == {"R", "N", "B", "Q"}

\* The same test without the comparison of the destination.
is_double_step(last_move, en_passant_attack_pos) ==
    (last_move.to_pos[2] - last_move.from_pos[2]) \in {2, -2}

\* The inner test of the en passant branch: the last move ended on the
\* square beside the pawn and spanned two ranks.
is_double_step_to(last_move, en_passant_attack_pos) ==
    /\ last_move.to_pos = en_passant_attack_pos
    /\ (last_move.to_pos[2] - last_move.from_pos[2]) \in {2, -2}

Pawn_get_possible_moves(game_state, piece_position) ==
    LET board_state == board_of(game_state)
        piece == piece_at(board_state, piece_position)
        team == piece.team
        piece_x == piece_position[1]
        piece_y == piece_position[2]
        forward_1_pos == <<piece_x, piece_y + direction(team)>>
        forward_1_is_at_end_of_board ==
            piece_y + direction(team) = (IF team = "W" THEN 7 ELSE 0)
        forward_2_pos == <<piece_x, piece_y + direction(team) * 2>>
        last_move == last_move_of(game_state)
        \* the body of `for right_left_dir in [-1, 1]`
        Side(right_left_dir) ==
            LET attack_pos == <<piece_x + right_left_dir, piece_y + direction(team)>>
                attacked_piece == piece_at(board_state, attack_pos)
                en_passant_attack_pos == <<piece_x + right_left_dir, piece_y>>
                en_passant_attacked_piece == piece_at(board_state, en_passant_attack_pos)
            IN  IF ~InRange(piece_x + right_left_dir) THEN {}
                ELSE
                  (IF attacked_piece # None /\ attacked_piece.team # team
                   THEN IF forward_1_is_at_end_of_board
                        THEN {PawnPromotionMove(piece_position, attack_pos, piece,
                                                Piece(team, s), attack_pos, attacked_piece) :
                                s \in PromotionSymbols}
                        ELSE {Move(piece_position, attack_pos, piece,
                                   attack_pos, attacked_piece)}
                   ELSE {})
                  \cup
                  (IF /\ en_passant_attacked_piece # None
                      /\ en_passant_attacked_piece.symbol = "P"
                      /\ last_move # NoMove
                      /\ is_double_step_to(last_move, en_passant_attack_pos)
                   THEN {Move(piece_position, attack_pos, piece,
                              en_passant_attack_pos, en_passant_attacked_piece)}
                   ELSE {})
        in_initial_position == (IF team = "W" THEN 1 ELSE 6) = piece_y
    IN  IF InRange(piece_y + direction(team))
        THEN Side(-1) \cup Side(1) \cup
             (IF piece_at(board_state, forward_1_pos) = None
              THEN IF forward_1_is_at_end_of_board
                   THEN {PawnPromotionMove(piece_position, forward_1_pos, piece,
                                           Piece(team, s), NoPos, None) :
                           s \in PromotionSymbols}
                   ELSE {Move(piece_position, forward_1_pos, piece, NoPos, None)}
                        \cup
                        (IF in_initial_position /\ piece_at(board_state, forward_2_pos) = None
                         THEN {Move(piece_position, forward_2_pos, piece, NoPos, None)}
                         ELSE {})
              ELSE {})
        ELSE {}

MoveToAttackedPositionsPiece_get_possible_moves(game_state, piece_position) ==
    LET board_state == board_of(game_state)
        piece == piece_at(board_state, piece_position)
        attacked == get_attacked_positions(board_state, piece, piece_position)
    IN  {Move(piece_position, attacked_pos, piece, NoPos, None) :
           attacked_pos \in {p \in attacked : piece_at(board_state, p) = None}}
        \cup
        {Move(piece_position, attacked_pos, piece, attacked_pos,
              piece_at(board_state, attacked_pos)) :
           attacked_pos \in {p \in attacked : /\ piece_at(board_state, p) # None
                                             /\ piece_at(board_state, p).team # piece.team}}

\* The squares of `range(piece_x + dir_to_rook, rook_x, dir_to_rook)`.
IntermediateXs(piece_x, rook_x, dir_to_rook) ==
    IF dir_to_rook = 1
    THEN {x \in -1..8 : piece_x + 1 <= x /\ x < rook_x}
    ELSE {x \in -1..8 : rook_x < x /\ x <= piece_x - 1}

King_get_castling_moves(game_state, piece_position) ==
    LET board_state == board_of(game_state)
        piece == piece_at(board_state, piece_position)
        team == piece.team
        piece_x == piece_position[1]
        piece_y == piece_position[2]
        moves == historical_moves(game_state)
        has_king_moved == \E k \in 1..Len(moves) : moves[k].moved_piece = piece
        squares_attacked_by_opponent ==
            get_squares_attacked_by_team(board_state, get_opponent_of(team), AllSymbols)
        rook_positions == IF team = "W" THEN {<<0, 0>>, <<7, 0>>}
                                        ELSE {<<0, 7>>, <<7, 7>>}
        CanCastle(rook_pos) ==
            LET rook_piece == piece_at(board_state, rook_pos)
                has_rook_moved == \E k \in 1..Len(moves) : moves[k].to_pos = rook_pos
                dir_to_rook == copysign1(rook_pos[1] - piece_x)
                is_any_intermediate_square_occupied_or_attacked ==
                    \E intermediate_x \in IntermediateXs(piece_x, rook_pos[1], dir_to_rook) :
                        \/ piece_at(board_state, <<intermediate_x, piece_y>>) # None
                        \/ <<intermediate_x, piece_y>> \in squares_attacked_by_opponent
            IN  /\ ~(rook_piece = None \/ rook_piece.symbol # "R" \/ rook_piece.team # team)
                /\ ~has_rook_moved
                /\ ~is_any_intermediate_square_occupied_or_attacked
    IN  IF ~has_king_moved /\ piece_position \notin squares_attacked_by_opponent
        THEN {CastlingMove(piece_position,
                           <<piece_x + copysign1(rook_pos[1] - piece_x) * 2, piece_y>>,
                           piece, rook_pos, piece_at(board_state, rook_pos)) :
                rook_pos \in {r \in rook_positions : CanCastle(r)}}
        ELSE {}

King_get_possible_moves(game_state, piece_position) ==
    MoveToAttackedPositionsPiece_get_possible_moves(game_state, piece_position)
    \cup King_get_castling_moves(game_state, piece_position)

get_possible_moves(game_state, piece_position) ==
    LET piece == piece_at(board_of(game_state), piece_position)
    IN  CASE piece.symbol = "P" -> Pawn_get_possible_moves(game_state, piece_position)
          [] piece.symbol = "K" -> King_get_possible_moves(game_state, piece_position)
          [] OTHER -> MoveToAttackedPositionsPiece_get_possible_moves(game_state, piece_position)

\* The candidate moves of the side to move: the two outer loops of
\* compute_legal_moves_for_playing_team.
possible_moves_of_playing_team(game_state) ==
    LET board_state == board_of(game_state)
    IN  UNION {get_possible_moves(game_state, PosOf(i)) :
                 i \in {i \in 1..64 : /\ board_state[i] # None
                                      /\ board_state[i].team = playing_team(game_state)}}

\* The filter of compute_legal_moves_for_playing_team: the move is tried on
\* a derived state and must not leave the mover's king checked.
is_move_legal(game_state, possible_move) ==
    ~is_king_checked(
        board_of(copy_with_act_applied(game_state, MoveAct(possible_move, FALSE))),
        playing_team(game_state))

\* The returned list read as a set: no move is generated twice, and the
\* callers only test membership and emptiness.
compute_legal_moves_for_playing_team(game_state) ==
    {possible_move \in possible_moves_of_playing_team(game_state) :
       is_move_legal(game_state, possible_move)}

\* `move in game_state.compute_legal_moves_for_playing_team()`
is_in_legal_moves(game_state, move) ==
    /\ move \in possible_moves_of_playing_team(game_state)
    /\ is_move_legal(game_state, move)

\* `len(game_state.compute_legal_moves_for_playing_team()) > 0`
has_valid_moves(game_state) ==
    \E possible_move \in possible_moves_of_playing_team(game_state) :
        is_move_legal(game_state, possible_move)

(***************************************************************************)
(* chess.py: game end rules and the game result                            *)
(***************************************************************************)

\* class Outcome.  The outcome attribute of a VictoryByOpponentSurrender
\* rule is the whole dict(W=WHITE_WINS, B=BLACK_WINS), named Outcome_DICT.
Outcome_DRAW == "DRAW"

Outcome_MAY_CLAIM_DRAW == "MAY_CLAIM_DRAW"

Outcome_WHITE_WINS == "WHITE_WINS"

Outcome_BLACK_WINS == "BLACK_WINS"

Outcome_DICT == "dict(W=WHITE_WINS, B=BLACK_WINS)"

\* The integer behind an outcome: DRAW = 0, MAY_CLAIM_DRAW = 1,
\* WHITE_WINS = 2, BLACK_WINS = 3.
Outcome_value(outcome) ==
    CASE outcome = Outcome_DRAW -> 0
      [] outcome = Outcome_MAY_CLAIM_DRAW -> 1
      [] outcome = Outcome_WHITE_WINS -> 2
      [] outcome = Outcome_BLACK_WINS -> 3

\* Python truthiness of an outcome attribute: the integer 0 is false, a
\* non-empty dict is true.
Truthy(outcome) ==
    IF outcome = Outcome_DICT THEN TRUE ELSE Outcome_value(outcome) # 0

Rule(cls, team) == [cls |-> cls, team |-> team]

\* ended_by_rule / may_claim_draw_by_rule = None
NoRule == Rule("None", "-")

game_end_rules ==
    << Rule("VictoryByOpponentSurrender", "W"),
       Rule("VictoryByOpponentSurrender", "B"),
       Rule("VictoryByCheckmate", "W"),
       Rule("VictoryByCheckmate", "B"),
       Rule("DrawByStalemate", "-"),
       Rule("DrawByFivefoldRepetition", "-"),
       Rule("DrawBySeventyFiveMoveRule", "-"),
       Rule("DrawByInsufficientMaterial", "-"),
       Rule("DrawClaimableByThreefoldRepetition", "-"),
       Rule("DrawClaimableByFiftyMoveRule", "-"),
       Rule("DrawClaimableByOffer", "-") >>

rule_outcome(rule) ==
    CASE rule.cls = "VictoryByOpponentSurrender" -> Outcome_DICT
      [] rule.cls = "VictoryByCheckmate" ->
            (IF rule.team = "W" THEN Outcome_WHITE_WINS ELSE Outcome_BLACK_WINS)
      [] rule.cls \in {"DrawByStalemate", "DrawByFivefoldRepetition",
                       "DrawBySeventyFiveMoveRule", "DrawByInsufficientMaterial"} ->
            Outcome_DRAW
      [] rule.cls \in {"DrawClaimableByThreefoldRepetition",
                       "DrawClaimableByFiftyMoveRule", "DrawClaimableByOffer"} ->
            Outcome_MAY_CLAIM_DRAW

\* A repetition rule that takes three occurrences for either class.
three_repetitions_of(rule) == 3

\* RepetitionRule.__init__(num_repetitions): 5 for DrawByFivefoldRepetition,
\* 3 for DrawClaimableByThreefoldRepetition.
num_repetitions_of(rule) == IF rule.cls = "DrawByFivefoldRepetition" THEN 5 ELSE 3

\* `act is Cls`: identity of the act with the class object Cls.  Every act
\* the callers build is an instance (ClaimDrawAct(), SurrenderAct(),
\* MoveAct(...)), and an instance is never its class.
is_class_object(act, cls) == FALSE

VictoryByOpponentSurrender_is_applicable(team, game_state) ==
    /\ is_class_object(last_act_of(game_state), "SurrenderAct")
    /\ playing_team(game_state) = team

VictoryByCheckmate_is_applicable(winning_team, game_state) ==
    /\ is_king_checked(board_of(game_state), get_opponent_of(winning_team))
    /\ ~has_valid_moves(game_state)
    /\ playing_team(game_state) = get_opponent_of(winning_team)

DrawByStalemate_is_applicable(game_state) ==
    /\ ~is_king_checked(board_of(game_state), playing_team(game_state))
    /\ ~has_valid_moves(game_state)

\* The states of the history: the chain up to node k.
StateAt(game_state, k) == SubSeq(game_state, 1, k)

\* The key of a history state in number_of_occurrences_by_state is
\* (positions and pieces, playing team, legal moves).  Some key is counted
\* num_repetitions times iff, from its first state i on, that many states
\* share first the board and the team of i, and then its legal moves too.
SameBoardAndTeam(game_state, i, j) ==
    /\ game_state[i].board_state = game_state[j].board_state
    /\ playing_team(StateAt(game_state, i)) = playing_team(StateAt(game_state, j))

\* A repetition rule that counts the occurrences of the current position
\* only.
RepetitionRule_of_current_position(num_repetitions, game_state) ==
    LET i == Len(game_state)
        same_board == {j \in 1..i : SameBoardAndTeam(game_state, j, i)}
        legal_moves_i == compute_legal_moves_for_playing_team(game_state)
    IN  /\ Cardinality(same_board) >= num_repetitions
        /\ Cardinality({j \in same_board :
                          \/ j = i
                          \/ compute_legal_moves_for_playing_team(StateAt(game_state, j))
                               = legal_moves_i})
             >= num_repetitions

RepetitionRule_is_applicable(num_repetitions, game_state) ==
    \E i \in 1..Len(game_state) :
        LET same_board == {j \in i..Len(game_state) : SameBoardAndTeam(game_state, i, j)}
            legal_moves_i == compute_legal_moves_for_playing_team(StateAt(game_state, i))
        IN  /\ Cardinality(same_board) >= num_repetitions
            /\ Cardinality({j \in same_board :
                              \/ j = i
                              \/ compute_legal_moves_for_playing_team(StateAt(game_state, j))
                                   = legal_moves_i})
                 >= num_repetitions

is_pawn_move_or_piece_capture(move) ==
    move.moved_piece.symbol = "P" \/ move.captured_piece # None

\* NoPawnMoveOrCaptureRule.is_applicable: counts, over the whole history,
\* the moves that are neither a pawn move nor a capture.
NoPawnMoveOrCaptureRule_is_applicable(num_turns, game_state) ==
    Cardinality({k \in 1..Len(game_state) :
                   /\ last_move_of(StateAt(game_state, k)) # NoMove
                   /\ ~is_pawn_move_or_piece_capture(last_move_of(StateAt(game_state, k)))})
        >= num_turns * 2

\* A test that takes any bishops to stand on one colour.
bishops_on_any_color(board_state) == TRUE

bishops_on_same_color(board_state) ==
    Cardinality({(PosOf(i)[1] + PosOf(i)[2]) % 2 :
                   i \in {i \in positions_and_pieces(board_state) :
                            board_state[i].symbol = "B"}}) = 1

DrawByInsufficientMaterial_is_applicable(game_state) ==
    LET board_state == board_of(game_state)
        pieces == positions_and_pieces(board_state)
        pieces_w == {board_state[i].symbol : i \in {i \in pieces : board_state[i].team = "W"}}
        pieces_b == {board_state[i].symbol : i \in {i \in pieces : board_state[i].team = "B"}}
    IN  \/ Cardinality(pieces) = 2
        \/ Cardinality(pieces) = 3 /\ {pieces_w, pieces_b} = {{"K", "N"}, {"K"}}
        \/ Cardinality(pieces) = 3 /\ {pieces_w, pieces_b} = {{"K", "B"}, {"K"}}
        \/ /\ Cardinality(pieces) = 4
           /\ pieces_w = {"K", "B"}
           /\ pieces_w = pieces_b
           /\ bishops_on_same_color(board_state)

DrawClaimableByOffer_is_applicable(game_state) ==
    /\ is_class_object(last_act_of(game_state), "MoveAct")
    /\ last_act_of(game_state).offer_draw

\* DrawClaimableByFiftyMoveRule and DrawBySeventyFiveMoveRule derive from
\* GameEndRule, not from NoPawnMoveOrCaptureRule: they inherit
\* GameEndRule.is_applicable, which returns False.
GameEndRule_is_applicable(game_state) == FALSE

is_applicable(rule, game_state) ==
    CASE rule.cls = "VictoryByOpponentSurrender" ->
            VictoryByOpponentSurrender_is_applicable(rule.team, game_state)
      [] rule.cls = "VictoryByCheckmate" ->
            VictoryByCheckmate_is_applicable(rule.team, game_state)
      [] rule.cls = "DrawByStalemate" -> DrawByStalemate_is_applicable(game_state)
      [] rule.cls \in {"DrawByFivefoldRepetition", "DrawClaimableByThreefoldRepetition"} ->
            RepetitionRule_is_applicable(num_repetitions_of(rule), game_state)
      [] rule.cls = "DrawByInsufficientMaterial" ->
            DrawByInsufficientMaterial_is_applicable(game_state)
      [] rule.cls = "DrawClaimableByOffer" -> DrawClaimableByOffer_is_applicable(game_state)
      [] rule.cls \in {"DrawBySeventyFiveMoveRule", "DrawClaimableByFiftyMoveRule"} ->
            GameEndRule_is_applicable(game_state)

\* next(rule for rule in game_end_rules if rule.is_applicable(game_state)
\*      and <claimable or not>), searched from rule k on; NoRule on
\* StopIteration.
RECURSIVE FirstRule(_, _, _)
FirstRule(game_state, claimable, k) ==
    IF k > Len(game_end_rules) THEN NoRule
    ELSE IF /\ (rule_outcome(game_end_rules[k]) = Outcome_MAY_CLAIM_DRAW) = claimable
            /\ is_applicable(game_end_rules[k], game_state)
         THEN game_end_rules[k]
         ELSE FirstRule(game_state, claimable, k + 1)

\* GameResult.__init__, from `self.is_finished = ...` on: the result built
\* from the two rules found.
GameResult_of(last_act, ended_by_rule, may_claim_draw_by_rule) ==
    IF /\ ended_by_rule = NoRule
       /\ may_claim_draw_by_rule # NoRule
       /\ is_class_object(last_act, "MoveAct")
       /\ last_act.offer_draw
    THEN [ended_by_rule |-> may_claim_draw_by_rule,
          may_claim_draw_by_rule |-> NoRule,
          is_finished |-> TRUE,
          may_claim_draw |-> FALSE]
    ELSE [ended_by_rule |-> ended_by_rule,
          may_claim_draw_by_rule |-> may_claim_draw_by_rule,
          is_finished |-> ended_by_rule # NoRule,
          may_claim_draw |-> ended_by_rule = NoRule /\ may_claim_draw_by_rule # NoRule]

\* GameResult.__init__.  The branch of `last_act is ClaimDrawAct` is never
\* taken; it would read previous_state.may_claim_draw_by_rule, an attribute
\* a GameState does not have.
GameResult(game_state) ==
    GameResult_of(last_act_of(game_state),
                  FirstRule(game_state, FALSE, 1),
                  FirstRule(game_state, TRUE, 1))

compute_result(game_state) == GameResult(game_state)

\* The property GameResult.outcome:
\* `self.is_finished and self.ended_by_rule.outcome or None`.
NoOutcome == "None"

GameResult_outcome(result) ==
    IF result.is_finished /\ Truthy(rule_outcome(result.ended_by_rule))
    THEN rule_outcome(result.ended_by_rule)
    ELSE NoOutcome

(***************************************************************************)
(* The acts the players submit.  A move is named by its squares            *)
(* <<from_x, from_y, to_x, to_y>>; the players follow the lines of Lines,  *)
(* and at any ply may instead surrender, claim a draw, offer a draw with   *)
(* the move, or submit again the move that was just played.                *)
(***************************************************************************)

Lines ==
    {
      \* a fool's mate, then a king step into the queen's line:
      \*   f2f3 e7e5 g2g4 d8h4 e1f2
      << <<5, 1, 5, 2>>, <<4, 6, 4, 4>>, <<6, 1, 6, 3>>, <<3, 7, 7, 3>>,
         <<4, 0, 5, 1>> >>,
      \* an en passant capture:
      \*   e2e4 a7a6 e4e5 d7d5 e5d6
      << <<4, 1, 4, 3>>, <<0, 6, 0, 5>>, <<4, 3, 4, 4>>, <<3, 6, 3, 4>>,
         <<4, 4, 3, 5>> >>,
      \* the same capture tried two plies late:
      \*   e2e4 a7a6 e4e5 d7d5 h2h3 h7h5 e5d6
      << <<4, 1, 4, 3>>, <<0, 6, 0, 5>>, <<4, 3, 4, 4>>, <<3, 6, 3, 4>>,
         <<7, 1, 7, 2>>, <<7, 6, 7, 4>>, <<4, 4, 3, 5>> >>,
      \* kingside castling of both teams:
      \*   e2e4 e7e5 g1f3 g8f6 f1e2 f8e7 e1g1 e8g8
      << <<4, 1, 4, 3>>, <<4, 6, 4, 4>>, <<6, 0, 5, 2>>, <<6, 7, 5, 5>>,
         <<5, 0, 4, 1>>, <<5, 7, 4, 6>>, <<4, 0, 6, 0>>, <<4, 7, 6, 7>> >>,
      \* castling tried after the king went out and back:
      \*   e2e4 e7e5 g1f3 g8f6 f1e2 f8e7 e1f1 a7a6 f1e1 a6a5 e1g1
      << <<4, 1, 4, 3>>, <<4, 6, 4, 4>>, <<6, 0, 5, 2>>, <<6, 7, 5, 5>>,
         <<5, 0, 4, 1>>, <<5, 7, 4, 6>>, <<4, 0, 5, 0>>, <<0, 6, 0, 5>>,
         <<5, 0, 4, 0>>, <<0, 5, 0, 4>>, <<4, 0, 6, 0>> >>,
      \* a king walk to a4 beside a pawn on b5, then the net closes:
      \*   d2d4 b7b5 e1d2 b8c6 d2c3 e7e6 c3b3 c6a5 b3a4 c7c6
      << <<3, 1, 3, 3>>, <<1, 6, 1, 4>>, <<4, 0, 3, 1>>, <<1, 7, 2, 5>>,
         <<3, 1, 2, 2>>, <<4, 6, 4, 5>>, <<2, 2, 1, 2>>, <<2, 5, 0, 4>>,
         <<1, 2, 0, 3>>, <<2, 6, 2, 5>> >>,
      \* the same walk, then the pawn takes on a4:
      \*   d2d4 b7b5 e1d2 b8c6 d2c3 e7e6 c3b3 c6a5 b3a4 b5a4
      << <<3, 1, 3, 3>>, <<1, 6, 1, 4>>, <<4, 0, 3, 1>>, <<1, 7, 2, 5>>,
         <<3, 1, 2, 2>>, <<4, 6, 4, 5>>, <<2, 2, 1, 2>>, <<2, 5, 0, 4>>,
         <<1, 2, 0, 3>>, <<1, 4, 0, 3>> >>,
      \* knights out and back, twice:
      \*   g1f3 g8f6 f3g1 f6g8 g1f3 g8f6 f3g1 f6g8
      << <<6, 0, 5, 2>>, <<6, 7, 5, 5>>, <<5, 2, 6, 0>>, <<5, 5, 6, 7>>,
         <<6, 0, 5, 2>>, <<6, 7, 5, 5>>, <<5, 2, 6, 0>>, <<5, 5, 6, 7>> >>,
      \* a white pawn going to h8:
      \*   h2h4 g7g5 h4g5 h7h6 g5h6 g8f6 h6h7 h8g8 h7h8
      << <<7, 1, 7, 3>>, <<6, 6, 6, 4>>, <<7, 3, 6, 4>>, <<7, 6, 7, 5>>,
         <<6, 4, 7, 5>>, <<6, 7, 5, 5>>, <<7, 5, 7, 6>>, <<7, 7, 6, 7>>,
         <<7, 6, 7, 7>> >>,
      \* a black pawn taking on g1:
      \*   a2a3 h7h5 g2g4 h5g4 h2h3 g4h3 g1f3 h3h2 h1g1 h2g1
      << <<0, 1, 0, 2>>, <<7, 6, 7, 4>>, <<6, 1, 6, 3>>, <<7, 4, 6, 3>>,
         <<7, 1, 7, 2>>, <<6, 3, 7, 2>>, <<6, 0, 5, 2>>, <<7, 2, 7, 1>>,
         <<7, 0, 6, 0>>, <<7, 1, 6, 0>> >>
    }

\* How many acts of one game may leave the lines: a surrender, a draw
\* claim, or a move that offers a draw.
MaxDeviations == 1

Squares(move) == <<move.from_pos[1], move.from_pos[2], move.to_pos[1], move.to_pos[2]>>

Follows(act, squares) == act.kind # "MoveAct" \/ Squares(act.move) = squares

\* The moves the lines continue the game with.
NextSquares(game_state) ==
    LET k == history_size(game_state)
    IN  {line[k + 1] :
           line \in {l \in Lines : /\ Len(l) > k
                                   /\ \A i \in 1..k : Follows(game_state[i + 1].last_act, l[i])}}

Deviations(game_state) ==
    Cardinality({k \in 1..Len(game_state) :
                   \/ game_state[k].last_act.kind \in {"ClaimDrawAct", "SurrenderAct"}
                   \/ game_state[k].last_act.offer_draw})

\* The candidate moves a player builds from its own pieces, as
\* PawnsAndQueensAIPlayer.pick_act does, legal or not.
PossibleMoves(game_state) == possible_moves_of_playing_team(game_state)

\* The moves of the lines, among the candidate moves of the side to move.
LineMoves(game_state) ==
    LET next_squares == NextSquares(game_state)
    IN  {m \in PossibleMoves(game_state) : Squares(m) \in next_squares}

\* The move that was just played, submitted once more.
StaleMoves(game_state) == {last_move_of(game_state)} \ {NoMove}

InputActs(game_state) ==
    LET line_moves == LineMoves(game_state)
    IN  {MoveAct(m, FALSE) : m \in line_moves \cup StaleMoves(game_state)}
        \cup
        (IF Deviations(game_state) < MaxDeviations
         THEN {MoveAct(m, TRUE) : m \in line_moves} \cup {ClaimDrawAct, SurrenderAct}
         ELSE {})

(***************************************************************************)
(* arbiter.py: the Arbiter                                                 *)
(***************************************************************************)

VARIABLES
    game_state,     \* Arbiter.game_state; <<>> is None (no game started)
    game_stopped,   \* Arbiter._game_stopped, the abort event
    lock,           \* Arbiter._lock: "free" or the thread that holds it
    calls,          \* the callbacks made by the latest handler, in order
    last_call,      \* the latest handler invoked and its argument
    threads,        \* the threads inside select_act: position, act, verdict
    abort_pc        \* the position of the thread inside abort_game

vars == <<game_state, game_stopped, lock, calls, last_call, threads, abort_pc>>

on_game_state_changed == [callback |-> "on_game_state_changed", team |-> "-"]

on_turn_to_act(team) == [callback |-> "on_turn_to_act", team |-> team]

cancel_turn_to_act(team) == [callback |-> "cancel_turn_to_act", team |-> team]

\* Arbiter(players): in the games modelled White's player is a human
\* player (CLIHumanPlayer, GUIPlayer) and Black's an AIChessPlayer.
players == [W |-> "ChessPlayer", B |-> "AIChessPlayer"]

\* The AttributeError of a call of a method the object does not have.
raise_AttributeError == [callback |-> "raise AttributeError", team |-> "-"]

\* self.players[team].cancel_turn_to_act(self): the callback, and with an
\* AIChessPlayer its call self.ai_player.abort_computation(), a method
\* that no AIPlayer class defines.
players_cancel_turn_to_act(team) ==
    IF players[team] = "AIChessPlayer"
    THEN <<cancel_turn_to_act(team), raise_AttributeError>>
    ELSE <<cancel_turn_to_act(team)>>

Call(op, act) == [op |-> op, act |-> act]

Threads == {"t1", "t2"}

IdleThread == [pc |-> "idle", act |-> NoAct, is_legal_act |-> FALSE]

Init ==
    /\ game_state = <<>>
    /\ game_stopped = FALSE
    /\ lock = "free"
    /\ calls = <<>>
    /\ last_call = Call("__init__", NoAct)
    /\ threads = [t \in Threads |-> IdleThread]
    /\ abort_pc = "idle"

\* A validation that finds every act legal.
every_act_is_legal(current_state, act) == TRUE

\* select_act, the validation of the act.
is_legal_act(current_state, act) ==
    CASE act.kind = "MoveAct" ->
            is_in_legal_moves(current_state, act.move)
      [] act.kind = "ClaimDrawAct" -> compute_result(current_state).may_claim_draw
      [] OTHER -> TRUE

\* select_act, `if is_legal_act:`: the new game_state.
select_act_apply(current_state, act) ==
    IF is_legal_act(current_state, act)
    THEN copy_with_act_applied(current_state, act)
    ELSE current_state

\* Callbacks that prompt the player on turn after every act, finished
\* game or not.
select_act_calls_always_prompting(current_state, new_state, act) ==
    IF new_state # current_state
    THEN <<on_game_state_changed, on_turn_to_act(playing_team(new_state))>>
    ELSE <<on_turn_to_act(playing_team(new_state))>>

\* select_act, the callbacks made: the watchers if the act was applied, and
\* `if not is_legal_act or not ...is_finished:` the prompt.  An applied act
\* lengthens the chain of states, a rejected one leaves it.
select_act_calls(current_state, new_state, act) ==
    IF new_state # current_state
    THEN <<on_game_state_changed>>
         \o (IF ~compute_result(new_state).is_finished
             THEN <<on_turn_to_act(playing_team(new_state))>>
             ELSE <<>>)
    ELSE <<on_turn_to_act(playing_team(new_state))>>

\* start_game, called once on a new Arbiter.
start_game ==
    /\ game_state = <<>>
    /\ game_state' = GameState(with_initial_material)
    /\ calls' = <<on_game_state_changed, on_turn_to_act(playing_team(game_state'))>>
    /\ last_call' = Call("start_game", NoAct)
    /\ UNCHANGED <<game_stopped, lock, threads, abort_pc>>

\* abort_game, run with no other thread inside the arbiter.
abort_game ==
    /\ game_state # <<>>
    /\ game_stopped' = TRUE
    /\ calls' = players_cancel_turn_to_act(playing_team(game_state))
    /\ last_call' = Call("abort_game", NoAct)
    /\ UNCHANGED <<game_state, lock, threads, abort_pc>>

\* select_act(act), run with no other thread inside the arbiter.
select_act(act) ==
    /\ game_state # <<>>
    /\ last_call' = Call("select_act", act)
    /\ IF game_stopped
       THEN /\ calls' = <<>>
            /\ UNCHANGED game_state
       ELSE /\ game_state' = select_act_apply(game_state, act)
            /\ calls' = select_act_calls(game_state, game_state', act)
    /\ UNCHANGED <<game_stopped, lock, threads, abort_pc>>

\* A player (or a caller standing in for it) submits one of the input acts.
submit_act ==
    /\ game_state # <<>>
    /\ \E act \in InputActs(game_state) : select_act(act)

Next ==
    \/ start_game
    \/ abort_game
    \/ submit_act

Spec == Init /\ [][Next]_vars

(***************************************************************************)
(* arbiter.py: the Arbiter with its threads.  select_act runs on the       *)
(* threads the players start (AIChessPlayer.on_turn_to_act), abort_game on *)
(* the thread of the user interface; a step is one statement or one lock   *)
(* operation, and `calls` holds the callbacks of the latest step.          *)
(***************************************************************************)

\* How many plies the games of the racing threads last.
MaxThreadPlies == 2

\* The acts the racing threads carry: moves of the lines.
ThreadActs(current_state) ==
    IF history_size(current_state) < MaxThreadPlies
    THEN {MoveAct(m, FALSE) : m \in LineMoves(current_state)}
    ELSE {}

\* A lock that never blocks.
lock_never_blocks(l) == TRUE

\* threading.Lock.acquire: blocks while the lock is held.
lock_is_free(l) == l = "free"

\* select_act, lines 69-71: the call and the test of the abort event.
select_call(t, act) ==
    /\ game_state # <<>>
    /\ threads[t].pc = "idle"
    /\ last_call' = Call("select_act", act)
    /\ calls' = <<>>
    /\ threads' = [threads EXCEPT ![t] =
                     IF game_stopped THEN IdleThread
                     ELSE [pc |-> "acquire", act |-> act, is_legal_act |-> FALSE]]
    /\ UNCHANGED <<game_state, game_stopped, lock, abort_pc>>

\* select_act, line 73: `with self._lock:` entered.
select_acquire(t) ==
    /\ threads[t].pc = "acquire"
    /\ lock_is_free(lock)
    /\ lock' = t
    /\ threads' = [threads EXCEPT ![t].pc = "validate"]
    /\ UNCHANGED <<game_state, game_stopped, calls, last_call, abort_pc>>

\* select_act, lines 74-79: the validation of the act.
select_validate(t) ==
    /\ threads[t].pc = "validate"
    /\ threads' = [threads EXCEPT ![t].pc = "apply",
                                  ![t].is_legal_act = is_legal_act(game_state, threads[t].act)]
    /\ UNCHANGED <<game_state, game_stopped, lock, calls, last_call, abort_pc>>

\* select_act, lines 81-86 and the end of the `with` block: the act is
\* applied if it was found legal, the callbacks are made, the lock released.
select_apply_found(t) ==
    /\ threads[t].pc = "apply"
    /\ game_state' = IF threads[t].is_legal_act
                     THEN copy_with_act_applied(game_state, threads[t].act)
                     ELSE game_state
    /\ calls' = select_act_calls(game_state, game_state', threads[t].act)
    /\ lock' = "free"
    /\ threads' = [threads EXCEPT ![t] = IdleThread]
    /\ UNCHANGED <<game_stopped, last_call, abort_pc>>

\* abort_game, line 65: the abort event is set.
abort_set ==
    /\ game_state # <<>>
    /\ abort_pc = "idle"
    /\ game_stopped' = TRUE
    /\ abort_pc' = "acquire"
    /\ last_call' = Call("abort_game", NoAct)
    /\ calls' = <<>>
    /\ UNCHANGED <<game_state, lock, threads>>

\* abort_game, line 66: `with self._lock:` entered.
abort_acquire ==
    /\ abort_pc = "acquire"
    /\ lock_is_free(lock)
    /\ lock' = "abort"
    /\ abort_pc' = "cancel"
    /\ UNCHANGED <<game_state, game_stopped, calls, last_call, threads>>

\* abort_game, line 67 and the end of the `with` block, left by the
\* return or by the exception.
abort_cancel ==
    /\ abort_pc = "cancel"
    /\ calls' = players_cancel_turn_to_act(playing_team(game_state))
    /\ lock' = "free"
    /\ abort_pc' = "done"
    /\ UNCHANGED <<game_state, game_stopped, last_call, threads>>

thread_call ==
    /\ game_state # <<>>
    /\ \E t \in Threads : \E act \in ThreadActs(game_state) : select_call(t, act)

thread_acquire == \E t \in Threads : select_acquire(t)

thread_validate == \E t \in Threads : select_validate(t)

thread_apply == \E t \in Threads : select_apply_found(t)

NextThreads ==
    \/ start_game
    \/ thread_call
    \/ thread_acquire
    \/ thread_validate
    \/ thread_apply
    \/ abort_set
    \/ abort_acquire
    \/ abort_cancel

SpecThreads == Init /\ [][NextThreads]_vars

(***************************************************************************)
(* arbiter.py: the Arbiter with a player that answers on the calling       *)
(* thread.  ChessPlayer.on_turn_to_act is to invoke the arbiter once the   *)
(* player has decided; the player of White does so before it returns, on   *)
(* the thread that called it, and Black's acts come from the threads its   *)
(* AIChessPlayer starts.                                                   *)
(***************************************************************************)

\* The teams whose player calls select_act from on_turn_to_act itself.
synchronous_players == {"W"}

\* The acts such a player submits: moves of the lines.
SynchronousActs(current_state) ==
    {MoveAct(m, FALSE) : m \in LineMoves(current_state)}

\* The callbacks ask a player that answers on the calling thread.
asks_synchronous_player(callbacks) ==
    \E i \in 1..Len(callbacks) :
        /\ callbacks[i].callback = "on_turn_to_act"
        /\ callbacks[i].team \in synchronous_players

\* start_game on thread t, lines 58-61: the watchers are notified and the
\* player of White is asked, outside the lock.
start_game_on(t) ==
    /\ game_state = <<>>
    /\ game_state' = GameState(with_initial_material)
    /\ calls' = <<on_game_state_changed, on_turn_to_act(playing_team(game_state'))>>
    /\ last_call' = Call("start_game", NoAct)
    /\ threads' = [threads EXCEPT ![t].pc = "on_turn_to_act"]
    /\ UNCHANGED <<game_stopped, lock, abort_pc>>

\* select_act, lines 81-86: the act is applied if it was found legal and
\* the callbacks are made.  A player that answers on the calling thread is
\* inside on_turn_to_act with the lock still held; otherwise the `with`
\* block ends and the lock is released.
select_apply_and_turn(t) ==
    /\ threads[t].pc = "apply"
    /\ game_state' = IF threads[t].is_legal_act
                     THEN copy_with_act_applied(game_state, threads[t].act)
                     ELSE game_state
    /\ calls' = select_act_calls(game_state, game_state', threads[t].act)
    /\ IF asks_synchronous_player(calls')
       THEN /\ threads' = [threads EXCEPT ![t] =
                             [pc |-> "on_turn_to_act", act |-> NoAct, is_legal_act |-> FALSE]]
            /\ lock' = lock
       ELSE /\ threads' = [threads EXCEPT ![t] = IdleThread]
            /\ lock' = "free"
    /\ UNCHANGED <<game_stopped, last_call, abort_pc>>

\* on_turn_to_act of the player on thread t: it calls select_act, lines
\* 69-71.  With the abort event set the call returns, and so does the
\* select_act that made the callback, releasing the lock it holds; otherwise
\* the call goes on to `with self._lock:`.
player_submits(t) ==
    /\ threads[t].pc = "on_turn_to_act"
    /\ \E act \in SynchronousActs(game_state) :
           /\ last_call' = Call("select_act", act)
           /\ threads' = [threads EXCEPT ![t] =
                            IF game_stopped THEN IdleThread
                            ELSE [pc |-> "acquire", act |-> act, is_legal_act |-> FALSE]]
    /\ calls' = <<>>
    /\ lock' = IF game_stopped /\ lock = t THEN "free" ELSE lock
    /\ UNCHANGED <<game_state, game_stopped, abort_pc>>

start_game_synchronous == \E t \in Threads : start_game_on(t)

thread_apply_and_turn == \E t \in Threads : select_apply_and_turn(t)

player_turn == \E t \in Threads : player_submits(t)

NextSynchronous ==
    \/ start_game_synchronous
    \/ thread_call
    \/ thread_acquire
    \/ thread_validate
    \/ thread_apply_and_turn
    \/ player_turn
    \/ abort_set
    \/ abort_acquire
    \/ abort_cancel

SpecSynchronous == Init /\ [][NextSynchronous]_vars

(***************************************************************************)
(* ai.py: MoveScorer and PawnsAndQueensAIPlayer                            *)
(***************************************************************************)

PIECE_VALUES == [P |-> 1, R |-> 5, N |-> 3, B |-> 3, Q |-> 9, K |-> 0]

\* A score is <<n>>; the score None of an illegal move is <<>>.
NoScore == <<>>

Score(n) == <<n>>

abs(v) == IF v < 0 THEN -v ELSE v

\* score_move, `if result.is_finished:`.
score_finished(result) ==
    IF GameResult_outcome(result) = Outcome_DRAW THEN -1000 ELSE 1000

\* score_move, `if move.moved_piece.symbol == 'P':`.
score_pawn_move(move) ==
    IF move.kind = "PawnPromotionMove"
    THEN 100
         + (IF move.captured_piece # None
            THEN PIECE_VALUES[move.captured_piece.symbol] ELSE 0)
         + PIECE_VALUES[move.promoted_piece.symbol]
    ELSE IF move.captured_piece # None
         THEN 10 + PIECE_VALUES[move.captured_piece.symbol]
         ELSE 1 + abs(move.to_pos[2] - move.from_pos[2])

\* score_move, `is_under_attack`, from the squares MoveScorer.__init__
\* computed on the current state.
is_under_attack(board_state, ai_team, from_pos) ==
    \/ from_pos \in get_squares_attacked_by_team(
                       board_state, get_opponent_of(ai_team), {"P", "R", "N", "B", "Q"})
    \/ /\ from_pos \in get_squares_attacked_by_team(
                          board_state, get_opponent_of(ai_team), {"K"})
       /\ from_pos \notin get_squares_attacked_by_team(board_state, ai_team, AllSymbols)

\* score_move, `elif move.moved_piece.symbol == 'Q':`.
score_queen_move(board_state, board_state_after, ai_team, move) ==
    IF move.to_pos \in get_squares_attacked_by_team(
                          board_state_after, get_opponent_of(ai_team),
                          {"P", "R", "N", "B", "Q"})
    THEN -100
    ELSE IF /\ move.to_pos \in get_squares_attacked_by_team(
                                  board_state_after, get_opponent_of(ai_team), {"K"})
            /\ move.to_pos \notin get_squares_attacked_by_team(
                                     board_state_after, ai_team, AllSymbols)
         THEN -100
         ELSE (IF is_under_attack(board_state, ai_team, move.from_pos) THEN 100 ELSE 0)
              + (IF move.captured_piece # None
                 THEN PIECE_VALUES[move.captured_piece.symbol] ELSE 0)

\* score_move, after the test of legality: the score of a legal move of a
\* pawn or a queen, by the result of the state it leads to.
score_legal_move(current_state, state_after, result, move) ==
    IF result.is_finished
    THEN Score(score_finished(result))
    ELSE IF move.moved_piece.symbol = "P"
         THEN Score(score_pawn_move(move))
         ELSE IF move.moved_piece.symbol = "Q"
              THEN Score(score_queen_move(board_of(current_state), board_of(state_after),
                                          playing_team(current_state), move))
              ELSE NoScore

\* score_move, `if state_after.is_king_checked(self.ai_team):`
leaves_king_checked(current_state, move) ==
    is_king_checked(board_of(copy_with_act_applied(current_state, MoveAct(move, FALSE))),
                    playing_team(current_state))

\* MoveScorer(game_state).score_move(move)
score_move(current_state, move) ==
    IF leaves_king_checked(current_state, move)
    THEN NoScore
    ELSE score_legal_move(current_state,
                          copy_with_act_applied(current_state, MoveAct(move, FALSE)),
                          compute_result(copy_with_act_applied(current_state, MoveAct(move, FALSE))),
                          move)

\* pick_act, `moves`: the candidate moves of the pawns and queens.
pawn_and_queen_moves(current_state) ==
    LET board_state == board_of(current_state)
    IN  UNION {get_possible_moves(current_state, PosOf(i)) :
                 i \in {i \in 1..64 : /\ board_state[i] # None
                                      /\ board_state[i].team = playing_team(current_state)
                                      /\ board_state[i].symbol \in {"P", "Q"}}}

\* pick_act, `move_with_score` after the filter of the illegal moves.
move_with_score(current_state) ==
    {ms \in {<<move, score_move(current_state, move)>> :
               move \in pawn_and_queen_moves(current_state)} : ms[2] # NoScore}

\* pick_act, `best_moves`: the moves of the best score.
best_moves(scored) ==
    {ms \in scored : \A other \in scored : other[2][1] <= ms[2][1]}

\* pick_act, from `if max_score is not None:` on: the acts it may return,
\* one for each outcome of the shuffle or of randrange.
pick_act_of(current_state, scored) ==
    IF scored # {}
    THEN {MoveAct(ms[1], FALSE) : ms \in best_moves(scored)}
    ELSE IF ~\E i \in 1..64 : board_of(current_state)[i].symbol = "Q"
         THEN {SurrenderAct}
         ELSE {MoveAct(move, FALSE) :
                 move \in compute_legal_moves_for_playing_team(current_state)}

\* PawnsAndQueensAIPlayer.pick_act(game_state)
pick_act(current_state) == pick_act_of(current_state, move_with_score(current_state))

(***************************************************************************)
(* The players of the rules engine: games that open with a written line    *)
(* and are then played by the PawnsAndQueensAIPlayer, and positions set up *)
(* with few pieces that the player is asked to move in.                    *)
(***************************************************************************)

\* The openings, in the coordinates <<from x, from y, to x, to y>>.
Openings ==
    { \* no opening: the player moves first
      << >>,
      \* a mate in one for Black's queen:  f2f3 e7e5 g2g4
      << <<5, 1, 5, 2>>, <<4, 6, 4, 4>>, <<6, 1, 6, 3>> >>,
      \* a knight's check that no pawn and no queen answers, next to a
      \* black pawn on b5:  d2d4 b7b5 e1d2 b8c6 d2c3 e7e6 c3b3 c6a5
      << <<3, 1, 3, 3>>, <<1, 6, 1, 4>>, <<4, 0, 3, 1>>, <<1, 7, 2, 5>>,
         <<3, 1, 2, 2>>, <<4, 6, 4, 5>>, <<2, 2, 1, 2>>, <<2, 5, 0, 4>> >>,
      \* a queen and a knight going back and forth until White's queen
      \* can mate on h5 or repeat a position for the fifth time:
      \*   e2e4 f7f6 d1e2 g7g5 d2d4 g8h6 e2d1 h6g8 d1e2 g8h6 e2d1 h6g8
      \*   d1e2 g8h6 e2d1 h6g8 d1e2 g8h6 e2d1 h6g8
      << <<4, 1, 4, 3>>, <<5, 6, 5, 5>>, <<3, 0, 4, 1>>, <<6, 6, 6, 4>>,
         <<3, 1, 3, 3>>, <<6, 7, 7, 5>>, <<4, 1, 3, 0>>, <<7, 5, 6, 7>>,
         <<3, 0, 4, 1>>, <<6, 7, 7, 5>>, <<4, 1, 3, 0>>, <<7, 5, 6, 7>>,
         <<3, 0, 4, 1>>, <<6, 7, 7, 5>>, <<4, 1, 3, 0>>, <<7, 5, 6, 7>>,
         <<3, 0, 4, 1>>, <<6, 7, 7, 5>>, <<4, 1, 3, 0>>, <<7, 5, 6, 7>> >>,
      \* a hundred half-moves of the knights, no position twice:
      \*   b1a3 b8a6 a3b1 a6b4 b1a3 b4c6 a3b1 c6a5 b1a3 a5b3 a3b1 b3c5
      \*   b1a3 c5a4 a3b1 a4b6 b1a3 b6c4 a3b1 c4a3 b1c3 a3b1 c3a4 b1a3
      \*   a4b6 a3b1 b6c4 b1a3 c4a5 a3b1 a5b3 b1a3 b3c5 a3b1 c5a6 b1a3
      \*   a6b4 a3b1 b4c6 b1a3 c6b8 a3b1 g1f3 b1a3 b8a6 a3b1 a6b4 b1a3
      \*   b4c6 a3b1 c6a5 b1a3 a5b3 a3b1 b3c5 b1a3 c5a4 a3b1 a4b6 b1a3
      \*   b6c4 a3b1 c4a3 b1c3 a3b1 c3a4 b1a3 a4b6 a3b1 b6c4 b1a3 c4a5
      \*   a3b1 a5b3 b1a3 b3c5 a3b1 c5a6 b1a3 a6b4 a3b1 b4c6 b1a3 c6b8
      \*   a3b1 g8f6 b1a3 b8a6 a3b1 a6b4 b1a3 b4c6 a3b1 c6a5 b1a3 a5b3
      \*   a3b1 b3c5 b1a3 c5a4
      << <<1, 0, 0, 2>>, <<1, 7, 0, 5>>, <<0, 2, 1, 0>>, <<0, 5, 1, 3>>,
         <<1, 0, 0, 2>>, <<1, 3, 2, 5>>, <<0, 2, 1, 0>>, <<2, 5, 0, 4>>,
         <<1, 0, 0, 2>>, <<0, 4, 1, 2>>, <<0, 2, 1, 0>>, <<1, 2, 2, 4>>,
         <<1, 0, 0, 2>>, <<2, 4, 0, 3>>, <<0, 2, 1, 0>>, <<0, 3, 1, 5>>,
         <<1, 0, 0, 2>>, <<1, 5, 2, 3>>, <<0, 2, 1, 0>>, <<2, 3, 0, 2>>,
         <<1, 0, 2, 2>>, <<0, 2, 1, 0>>, <<2, 2, 0, 3>>, <<1, 0, 0, 2>>,
         <<0, 3, 1, 5>>, <<0, 2, 1, 0>>, <<1, 5, 2, 3>>, <<1, 0, 0, 2>>,
         <<2, 3, 0, 4>>, <<0, 2, 1, 0>>, <<0, 4, 1, 2>>, <<1, 0, 0, 2>>,
         <<1, 2, 2, 4>>, <<0, 2, 1, 0>>, <<2, 4, 0, 5>>, <<1, 0, 0, 2>>,
         <<0, 5, 1, 3>>, <<0, 2, 1, 0>>, <<1, 3, 2, 5>>, <<1, 0, 0, 2>>,
         <<2, 5, 1, 7>>, <<0, 2, 1, 0>>, <<6, 0, 5, 2>>, <<1, 0, 0, 2>>,
         <<1, 7, 0, 5>>, <<0, 2, 1, 0>>, <<0, 5, 1, 3>>, <<1, 0, 0, 2>>,
         <<1, 3, 2, 5>>, <<0, 2, 1, 0>>, <<2, 5, 0, 4>>, <<1, 0, 0, 2>>,
         <<0, 4, 1, 2>>, <<0, 2, 1, 0>>, <<1, 2, 2, 4>>, <<1, 0, 0, 2>>,
         <<2, 4, 0, 3>>, <<0, 2, 1, 0>>, <<0, 3, 1, 5>>, <<1, 0, 0, 2>>,
         <<1, 5, 2, 3>>, <<0, 2, 1, 0>>, <<2, 3, 0, 2>>, <<1, 0, 2, 2>>,
         <<0, 2, 1, 0>>, <<2, 2, 0, 3>>, <<1, 0, 0, 2>>, <<0, 3, 1, 5>>,
         <<0, 2, 1, 0>>, <<1, 5, 2, 3>>, <<1, 0, 0, 2>>, <<2, 3, 0, 4>>,
         <<0, 2, 1, 0>>, <<0, 4, 1, 2>>, <<1, 0, 0, 2>>, <<1, 2, 2, 4>>,
         <<0, 2, 1, 0>>, <<2, 4, 0, 5>>, <<1, 0, 0, 2>>, <<0, 5, 1, 3>>,
         <<0, 2, 1, 0>>, <<1, 3, 2, 5>>, <<1, 0, 0, 2>>, <<2, 5, 1, 7>>,
         <<0, 2, 1, 0>>, <<6, 7, 5, 5>>, <<1, 0, 0, 2>>, <<1, 7, 0, 5>>,
         <<0, 2, 1, 0>>, <<0, 5, 1, 3>>, <<1, 0, 0, 2>>, <<1, 3, 2, 5>>,
         <<0, 2, 1, 0>>, <<2, 5, 0, 4>>, <<1, 0, 0, 2>>, <<0, 4, 1, 2>>,
         <<0, 2, 1, 0>>, <<1, 2, 2, 4>>, <<1, 0, 0, 2>>, <<2, 4, 0, 3>> >>
    }

\* The moves the openings continue the game with.
OpeningSquares(current_state) ==
    LET k == history_size(current_state)
    IN  {line[k + 1] :
           line \in {l \in Openings : /\ Len(l) > k
                                      /\ \A i \in 1..k : Follows(current_state[i + 1].last_act, l[i])}}

OpeningMoves(current_state) ==
    LET next_squares == OpeningSquares(current_state)
    IN  {m \in PossibleMoves(current_state) : Squares(m) \in next_squares}

\* The game is at the end of an opening.
OpeningPlayed(current_state) ==
    \E l \in Openings :
        /\ Len(l) = history_size(current_state)
        /\ \A i \in 1..Len(l) : Follows(current_state[i + 1].last_act, l[i])

\* How many pieces a position set up holds besides the two kings.
MaxExtraPieces == 2

\* The squares of the extra pieces: c4 and d5 of one colour, d4 of the
\* other; none of them lets a piece attack a king on its home square.
ExtraSquares == {<<2, 3>>, <<3, 4>>, <<3, 3>>}

ExtraPieces == {Piece(team, symbol) : team \in {"W", "B"}, symbol \in {"Q", "R", "B", "N", "P"}}

\* BoardState.empty()
empty == [i \in 1..64 |-> None]

\* The assignments of extra pieces to squares.
Placements ==
    UNION {[squares -> ExtraPieces] :
             squares \in {s \in SUBSET ExtraSquares : Cardinality(s) <= MaxExtraPieces}}

\* BoardState.from_notation, for the kings on e1 and e8 and the extra
\* pieces of a placement.
from_notation(placement) ==
    [i \in 1..64 |->
       IF PosOf(i) \in DOMAIN placement THEN placement[PosOf(i)]
       ELSE IF PosOf(i) = <<4, 0>> THEN Piece("W", "K")
       ELSE IF PosOf(i) = <<4, 7>> THEN Piece("B", "K")
       ELSE empty[i]]

\* BoardState.from_notation, for the endings set up besides: White's king
\* on c7 and pawn on b5 against Black's king on a8.
Studies ==
    { [i \in 1..64 |->
         CASE PosOf(i) = <<2, 6>> -> Piece("W", "K")
           [] PosOf(i) = <<1, 4>> -> Piece("W", "P")
           [] PosOf(i) = <<0, 7>> -> Piece("B", "K")
           [] OTHER -> empty[i]] }

\* The positions set up: GameState(BoardState.from_notation(...)).
Positions ==
    {GameState(from_notation(placement)) : placement \in Placements}
    \cup {GameState(board_state) : board_state \in Studies}

\* An Arbiter not started yet, or one whose game is a position set up.
InitPositions ==
    /\ game_state \in {<<>>} \cup Positions
    /\ game_stopped = FALSE
    /\ lock = "free"
    /\ calls = <<>>
    /\ last_call = Call("__init__", NoAct)
    /\ threads = [t \in Threads |-> IdleThread]
    /\ abort_pc = "idle"

\* A game started by start_game.
is_started_game(current_state) ==
    /\ current_state # <<>>
    /\ current_state[1].board_state = with_initial_material

\* The opening is played: its next move is submitted.
play_opening ==
    /\ is_started_game(game_state)
    /\ \E move \in OpeningMoves(game_state) : select_act(MoveAct(move, FALSE))

\* The AI player is asked for its act: at the end of an opening, and in a
\* position set up.
is_asked(current_state) ==
    /\ current_state # <<>>
    /\ IF is_started_game(current_state) THEN OpeningPlayed(current_state)
                                         ELSE history_size(current_state) = 0

\* AIChessPlayer._pick_act_in_separate_thread: the player picks its act in
\* the current state and submits it.
ai_turn ==
    /\ is_asked(game_state)
    /\ \E act \in pick_act(game_state) : select_act(act)

NextPositions ==
    \/ start_game
    \/ play_opening
    \/ ai_turn

SpecPositions == InitPositions /\ [][NextPositions]_vars

(***************************************************************************)
(* The rules of chess the claims are stated with                           *)
(***************************************************************************)

\* A pawn attacks both of its in-board forward-diagonal squares; the other
\* pieces attack as the program computes.
attacks_of_chess(board_state, piece, piece_position) ==
    IF piece.symbol = "P"
    THEN {pos \in {<<piece_position[1] - 1, piece_position[2] + direction(piece.team)>>,
                   <<piece_position[1] + 1, piece_position[2] + direction(piece.team)>>} :
            InRange(pos[1]) /\ InRange(pos[2])}
    ELSE get_attacked_positions(board_state, piece, piece_position)

\* The king of king_team stands on a square an enemy piece attacks; a team
\* without a king counts as in check.
king_in_check(board_state, king_team) ==
    LET kings == {k \in 1..64 : board_state[k] = Piece(king_team, "K")}
    IN  \/ kings = {}
        \/ \E k \in kings : \E i \in 1..64 :
              /\ board_state[i] # None
              /\ board_state[i].team = get_opponent_of(king_team)
              /\ PosOf(k) \in attacks_of_chess(board_state, board_state[i], PosOf(i))

board_after(current_state, move) ==
    board_of(copy_with_act_applied(current_state, MoveAct(move, FALSE)))

\* The side to move has a move that does not leave its king in check.
has_move_of_chess(current_state) ==
    \E move \in possible_moves_of_playing_team(current_state) :
        ~king_in_check(board_after(current_state, move), playing_team(current_state))

(***************************************************************************)
(* C1                                                                      *)
(***************************************************************************)

\* C1: in every reachable game state, each move returned by
\* compute_legal_moves_for_playing_team, once applied, yields a position in
\* which the mover's king stands on no square an enemy piece attacks (a pawn
\* attacking both of its in-board forward diagonals).
C1_LegalMovesLeaveKingSafe ==
    game_state # <<>> =>
        \A move \in possible_moves_of_playing_team(game_state) :
            is_move_legal(game_state, move) =>
                ~king_in_check(board_after(game_state, move), playing_team(game_state))

(***************************************************************************)
(* C8                                                                      *)
(***************************************************************************)

\* A pawn move that captures on a square other than the one it moves to.
is_en_passant(move) ==
    /\ move.kind = "Move"
    /\ move.moved_piece.symbol = "P"
    /\ move.captured_piece # None
    /\ move.captured_pos # move.to_pos

en_passant_moves(current_state) ==
    {move \in possible_moves_of_playing_team(current_state) :
       is_en_passant(move) /\ is_move_legal(current_state, move)}

\* The act that led to current_state is the two-square advance of the pawn
\* of `team` that now stands on pawn_pos.
just_advanced_two(current_state, team, pawn_pos) ==
    LET last_act == last_act_of(current_state)
    IN  /\ last_act.kind = "MoveAct"
        /\ last_act.move.moved_piece = Piece(team, "P")
        /\ last_act.move.to_pos = pawn_pos
        /\ last_act.move.from_pos = <<pawn_pos[1], pawn_pos[2] - 2 * direction(team)>>

\* C8: an en passant capture is among the legal moves only in the state
\* right after the captured pawn advanced two squares, and only for an enemy
\* pawn on an adjacent file of the same rank; in every other state, so after
\* any intervening act, it is not generated.
C8_EnPassantOnlyRightAfterDoubleStep ==
    game_state # <<>> =>
        \A move \in en_passant_moves(game_state) :
            /\ just_advanced_two(game_state, get_opponent_of(playing_team(game_state)),
                                 move.captured_pos)
            /\ move.captured_piece = Piece(get_opponent_of(playing_team(game_state)), "P")
            /\ move.moved_piece = Piece(playing_team(game_state), "P")
            /\ move.from_pos[2] = move.captured_pos[2]
            /\ move.from_pos[1] - move.captured_pos[1] \in {1, -1}

\* An en passant capture is among the legal moves.
C8_Witness ==
    game_state # <<>> /\ en_passant_moves(game_state) # {}

(***************************************************************************)
(* C9                                                                      *)
(***************************************************************************)

\* The moves of the whole game, one for every MoveAct of the history.
moves_of_game(current_state) ==
    {current_state[k].last_act.move :
       k \in {k \in 1..Len(current_state) : current_state[k].last_act.kind = "MoveAct"}}

king_home(team) == IF team = "W" THEN <<4, 0>> ELSE <<4, 7>>

rook_corners(team) ==
    IF team = "W" THEN {<<0, 0>>, <<7, 0>>} ELSE {<<0, 7>>, <<7, 7>>}

king_never_moved(current_state, team) ==
    /\ piece_at(board_of(current_state), king_home(team)) = Piece(team, "K")
    /\ \A move \in moves_of_game(current_state) : move.moved_piece # Piece(team, "K")

\* The rook stands on its corner, and no move of the game left the corner
\* or ended on it.
rook_never_moved(current_state, team, corner) ==
    /\ piece_at(board_of(current_state), corner) = Piece(team, "R")
    /\ \A move \in moves_of_game(current_state) :
          move.from_pos # corner /\ move.to_pos # corner

squares_between(from_pos, corner) ==
    {<<x, from_pos[2]>> : x \in {x \in 0..7 : \/ (from_pos[1] < x /\ x < corner[1])
                                             \/ (corner[1] < x /\ x < from_pos[1])}}

\* The conditions of castling with the rook of `corner`, for the side to move.
may_castle(current_state, corner) ==
    LET team == playing_team(current_state)
        board_state == board_of(current_state)
        attacked == get_squares_attacked_by_team(board_state, get_opponent_of(team),
                                                 AllSymbols)
    IN  /\ king_never_moved(current_state, team)
        /\ rook_never_moved(current_state, team, corner)
        /\ ~is_king_checked(board_state, team)
        /\ \A pos \in squares_between(king_home(team), corner) :
              piece_at(board_state, pos) = None /\ pos \notin attacked

castling_is_legal(current_state, corner) ==
    \E move \in possible_moves_of_playing_team(current_state) :
        /\ move.kind = "CastlingMove"
        /\ move.rook_pos = corner
        /\ is_move_legal(current_state, move)

\* C9: for both teams and both sides, a CastlingMove is among the legal
\* moves if and only if the king made no move in the whole game history, the
\* rook of that corner made none, the king is not in check, and every square
\* strictly between king and rook is empty and not attacked by the opponent.
C9_CastlingIffConditions ==
    game_state # <<>> =>
        \A corner \in rook_corners(playing_team(game_state)) :
            castling_is_legal(game_state, corner) <=> may_castle(game_state, corner)

(***************************************************************************)
(* C10                                                                     *)
(***************************************************************************)

\* The side to move is checkmated: its king is in check and it has no move
\* that ends the check.
is_checkmated(current_state) ==
    /\ king_in_check(board_of(current_state), playing_team(current_state))
    /\ ~has_move_of_chess(current_state)

wins(team) == IF team = "W" THEN Outcome_WHITE_WINS ELSE Outcome_BLACK_WINS

\* C10: in every state where the side to move is in check and has no legal
\* move, compute_result reports is_finished, ended_by_rule the checkmate
\* rule of the other side and the outcome that this side wins; and checkmate
\* is reported in no other state.
C10_CheckmateReportedIffMated ==
    game_state # <<>> =>
        LET result == compute_result(game_state)
            winner == get_opponent_of(playing_team(game_state))
        IN  /\ is_checkmated(game_state) =>
                  /\ result.is_finished
                  /\ result.ended_by_rule = Rule("VictoryByCheckmate", winner)
                  /\ GameResult_outcome(result) = wins(winner)
            /\ result.ended_by_rule.cls = "VictoryByCheckmate" => is_checkmated(game_state)

(***************************************************************************)
(* The arbiter's claims                                                    *)
(***************************************************************************)

\* Some player is prompted by the callbacks cs.
prompts_a_player(cs) ==
    \E k \in 1..Len(cs) : cs[k].callback = "on_turn_to_act"

notifies_watchers(cs) ==
    \E k \in 1..Len(cs) : cs[k].callback = "on_game_state_changed"

\* The step is a call of select_act with a MoveAct that is not among the
\* legal moves of the current state.
illegal_move_submitted ==
    /\ game_state # <<>>
    /\ last_call'.op = "select_act"
    /\ last_call'.act.kind = "MoveAct"
    /\ ~is_in_legal_moves(game_state, last_call'.act.move)

\* The answer to a rejected act: nothing changes, the watchers hear nothing,
\* the player of the same team is prompted again.
rejected_and_prompted_again ==
    /\ game_state' = game_state
    /\ ~notifies_watchers(calls')
    /\ calls' = <<on_turn_to_act(playing_team(game_state))>>

C5_FinishedIsTerminal ==
    [][(/\ game_state # <<>>
        /\ compute_result(game_state).is_finished
        /\ last_call'.op = "select_act")
       => (game_state' = game_state /\ ~prompts_a_player(calls'))]_vars

\* C6: select_act(SurrenderAct) in a running game is accepted, and the state
\* it produces is finished, ended by the victory-by-surrender rule, with the
\* opponent of the surrendering team as the winner; no player is prompted.
C6_SurrenderFinishesTheGame ==
    [][(/\ game_state # <<>>
        /\ ~game_stopped
        /\ ~compute_result(game_state).is_finished
        /\ last_call'.op = "select_act"
        /\ last_call'.act = SurrenderAct)
       => (/\ game_state' = copy_with_act_applied(game_state, SurrenderAct)
           /\ compute_result(game_state').is_finished
           /\ compute_result(game_state').ended_by_rule.cls = "VictoryByOpponentSurrender"
           /\ GameResult_outcome(compute_result(game_state'))
                = wins(get_opponent_of(playing_team(game_state)))
           /\ ~prompts_a_player(calls'))]_vars

\* C7: select_act(ClaimDrawAct) is applied only when compute_result of the
\* current state reports may_claim_draw, and is otherwise rejected like an
\* illegal move; once applied, the new state is finished, ended by the rule
\* the previous state reported as may_claim_draw_by_rule.
C7_ClaimDrawEndsByClaimableRule ==
    [][(/\ game_state # <<>>
        /\ ~game_stopped
        /\ last_call'.op = "select_act"
        /\ last_call'.act = ClaimDrawAct)
       => IF compute_result(game_state).may_claim_draw
          THEN /\ game_state' = copy_with_act_applied(game_state, ClaimDrawAct)
               /\ compute_result(game_state').is_finished
               /\ compute_result(game_state').ended_by_rule
                    = compute_result(game_state).may_claim_draw_by_rule
          ELSE rejected_and_prompted_again]_vars

(***************************************************************************)
(* The claims about the threads                                            *)
(***************************************************************************)

\* C3: under every interleaving of abort_game with select_act calls, once
\* abort_game has run (here: has returned) no act is applied to game_state
\* and no player is prompted.
C3_NothingHappensAfterAbort ==
    [][abort_pc = "done"
       => (/\ game_state' = game_state
           /\ calls' # calls => ~prompts_a_player(calls'))]_vars

\* Every MoveAct of the history was a legal move of the state before it.
each_move_was_legal(current_state) ==
    \A k \in 2..Len(current_state) :
        current_state[k].last_act.kind = "MoveAct" =>
            is_in_legal_moves(StateAt(current_state, k - 1), current_state[k].last_act.move)

\* The verdict a thread is about to act on is the verdict of the state the
\* act will be applied to.
verdicts_are_current ==
    \A t \in Threads :
        threads[t].pc = "apply" =>
            threads[t].is_legal_act = is_legal_act(game_state, threads[t].act)

\* A step that changes game_state is start_game, or adds exactly the act of
\* the one thread that leaves select_act in that step.
one_act_at_a_time ==
    (game_state' # game_state /\ game_state # <<>>) =>
        \E t \in Threads :
            /\ threads[t].pc = "apply"
            /\ threads'[t] = IdleThread
            /\ \A u \in Threads \ {t} : threads'[u] = threads[u]
            /\ game_state' = copy_with_act_applied(game_state, threads[t].act)

\* C4: under concurrent select_act calls the acts are applied one at a time
\* in one order: every applied act was validated against the state it is
\* applied to, each MoveAct of the history was legal in the state before it,
\* and every step adds at most the one act of the thread that applies it.
C4_ActsAreSerialized ==
    [][/\ verdicts_are_current'
       /\ each_move_was_legal(game_state')
       /\ one_act_at_a_time]_vars

\* Two threads are inside select_act at once: one waits for the lock, the
\* other holds it and has found its move illegal, because an act applied
\* since the game began gave the turn to the other team.
C4_Witness ==
    \E t \in Threads : \E u \in Threads \ {t} :
        /\ threads[t].pc = "apply"
        /\ ~threads[t].is_legal_act
        /\ threads[t].act.move.moved_piece.team # playing_team(game_state)
        /\ threads[u].pc = "acquire"
        /\ lock = t

(***************************************************************************)
(* The claims on the draw rules                                            *)
(***************************************************************************)

\* States i and j of the history show the same position: the same pieces
\* on the same squares and the same team to move...
same_pieces_and_team(current_state, i, j) ==
    /\ board_of(StateAt(current_state, i)) = board_of(StateAt(current_state, j))
    /\ (i - j) % 2 = 0

\* ...and the same legal moves.
same_legal_moves(current_state, i, j) ==
    compute_legal_moves_for_playing_team(StateAt(current_state, i))
        = compute_legal_moves_for_playing_team(StateAt(current_state, j))

\* The position of the game has occurred n times in its history, the
\* present occurrence included.
position_occurred(current_state, n) ==
    LET i == Len(current_state)
    IN  /\ Cardinality({j \in 1..i : same_pieces_and_team(current_state, i, j)}) >= n
        /\ Cardinality({j \in 1..i :
                          /\ same_pieces_and_team(current_state, i, j)
                          /\ i = j \/ same_legal_moves(current_state, i, j)}) >= n

\* C11: when the position of the game (pieces, team to move, legal moves)
\* has occurred five times, compute_result reports the game finished by
\* DrawByFivefoldRepetition; when it has occurred three times but not five,
\* compute_result reports a draw claimable by
\* DrawClaimableByThreefoldRepetition and the game not finished.
C11_RepetitionClaimableAtThreeForcedAtFive ==
    game_state # <<>> =>
        IF position_occurred(game_state, 5)
        THEN /\ compute_result(game_state).is_finished
             /\ compute_result(game_state).ended_by_rule = Rule("DrawByFivefoldRepetition", "-")
        ELSE position_occurred(game_state, 3) =>
                /\ ~compute_result(game_state).is_finished
                /\ compute_result(game_state).may_claim_draw
                /\ compute_result(game_state).may_claim_draw_by_rule
                     = Rule("DrawClaimableByThreefoldRepetition", "-")

\* A fifth occurrence comes about by a submitted move and ends the game.
C11_Witness ==
    /\ game_state # <<>>
    /\ last_call.op = "select_act"
    /\ position_occurred(game_state, 5)
    /\ ~position_occurred(previous_state(game_state), 5)
    /\ compute_result(game_state).is_finished

\* The half-moves played since the last pawn move or capture.
half_moves_without_progress(current_state) ==
    LET progress == {k \in 1..Len(current_state) :
                       \/ k = 1
                       \/ /\ current_state[k].last_act.kind = "MoveAct"
                          /\ \/ current_state[k].last_act.move.moved_piece.symbol = "P"
                             \/ current_state[k].last_act.move.captured_piece # None}
        latest == CHOOSE k \in progress : \A other \in progress : other <= k
    IN  Cardinality({k \in (latest + 1)..Len(current_state) :
                       current_state[k].last_act.kind = "MoveAct"})

\* C12: once a hundred half-moves (fifty moves of each side, and more than
\* seventy-five half-moves) have been played without a pawn move or a
\* capture, compute_result reports a draw claimable by
\* DrawClaimableByFiftyMoveRule, or the game finished by
\* DrawBySeventyFiveMoveRule.
C12_NoProgressMakesDrawClaimableOrForced ==
    (game_state # <<>> /\ half_moves_without_progress(game_state) >= 2 * 50) =>
        \/ /\ compute_result(game_state).is_finished
           /\ compute_result(game_state).ended_by_rule = Rule("DrawBySeventyFiveMoveRule", "-")
        \/ /\ ~compute_result(game_state).is_finished
           /\ compute_result(game_state).may_claim_draw
           /\ compute_result(game_state).may_claim_draw_by_rule
                = Rule("DrawClaimableByFiftyMoveRule", "-")

\* The squares of the pieces of a team other than its king.
pieces_besides_king(board_state, team) ==
    {i \in 1..64 : /\ board_state[i] # None
                   /\ board_state[i].team = team
                   /\ board_state[i].symbol # "K"}

square_colour(i) == (PosOf(i)[1] + PosOf(i)[2]) % 2

\* The material with which neither side can mate: king against king, king
\* and one knight or one bishop against king, king and bishop against king
\* and bishop with the bishops on squares of one colour.
insufficient_material(board_state) ==
    LET white == pieces_besides_king(board_state, "W")
        black == pieces_besides_king(board_state, "B")
    IN  \/ white \cup black = {}
        \/ /\ Cardinality(white \cup black) = 1
           /\ \A i \in white \cup black : board_state[i].symbol \in {"N", "B"}
        \/ /\ Cardinality(white) = 1
           /\ Cardinality(black) = 1
           /\ \A i \in white \cup black : board_state[i].symbol = "B"
           /\ \A i \in white : \A j \in black : square_colour(i) = square_colour(j)

\* C13: DrawByInsufficientMaterial is applicable exactly in the positions
\* of king against king, king and knight against king, king and bishop
\* against king, and king and bishop against king and bishop with the
\* bishops on one colour; and a position of the two kings alone is reported
\* finished as a draw by that rule.
C13_InsufficientMaterialExactly ==
    game_state # <<>> =>
        /\ DrawByInsufficientMaterial_is_applicable(game_state)
             <=> insufficient_material(board_of(game_state))
        /\ (pieces_besides_king(board_of(game_state), "W")
              \cup pieces_besides_king(board_of(game_state), "B") = {}) =>
                /\ compute_result(game_state).is_finished
                /\ compute_result(game_state).ended_by_rule
                     = Rule("DrawByInsufficientMaterial", "-")
                /\ rule_outcome(compute_result(game_state).ended_by_rule) = Outcome_DRAW

\* select_act computes the result of a position of a bishop against a
\* bishop on the same colour, and the game is reported finished by the rule.
C13_Witness ==
    /\ game_state # <<>>
    /\ last_call.op = "select_act"
    /\ Cardinality(pieces_besides_king(board_of(game_state), "W")) = 1
    /\ Cardinality(pieces_besides_king(board_of(game_state), "B")) = 1
    /\ insufficient_material(board_of(game_state))
    /\ compute_result(game_state).ended_by_rule = Rule("DrawByInsufficientMaterial", "-")

\* C14: when the state was reached by a MoveAct that carried an offer of a
\* draw, no forcing rule finishes it and a draw is claimable in it, then
\* compute_result reports the game finished, ended by the claimable rule,
\* and no draw left to claim.
C14_DrawOfferOnClaimablePositionFinishes ==
    ( /\ game_state # <<>>
      /\ last_act_of(game_state).kind = "MoveAct"
      /\ last_act_of(game_state).offer_draw
      /\ FirstRule(game_state, FALSE, 1) = NoRule
      /\ FirstRule(game_state, TRUE, 1) # NoRule )
    => /\ compute_result(game_state).is_finished
       /\ compute_result(game_state).ended_by_rule = FirstRule(game_state, TRUE, 1)
       /\ ~compute_result(game_state).may_claim_draw

(***************************************************************************)
(* The claims on the AI player                                             *)
(***************************************************************************)

\* C15: in a state with a legal move, every MoveAct that pick_act may
\* return, by the scores or by the random fallback, carries a move of the
\* state's legal moves, and the move does not leave the king of the AI's
\* team in check.
C15_PickedMoveIsLegalAndKeepsKingSafe ==
    (is_asked(game_state) /\ has_valid_moves(game_state)) =>
        \A act \in pick_act(game_state) :
            act.kind = "MoveAct" =>
                /\ is_in_legal_moves(game_state, act.move)
                /\ ~king_in_check(board_after(game_state, act.move),
                                  playing_team(game_state))

\* The move delivers checkmate: the opponent is checkmated in the state
\* the move leads to.
delivers_checkmate(current_state, move) ==
    is_checkmated(copy_with_act_applied(current_state, MoveAct(move, FALSE)))

\* C16: whenever a legal move of a pawn or a queen of the AI's team
\* delivers checkmate, every act pick_act may return is a move that
\* delivers checkmate.
C16_MateInOneIsPicked ==
    ( /\ is_asked(game_state)
      /\ \E move \in pawn_and_queen_moves(game_state) :
             /\ is_move_legal(game_state, move)
             /\ delivers_checkmate(game_state, move) )
    => \A act \in pick_act(game_state) :
           /\ act.kind = "MoveAct"
           /\ delivers_checkmate(game_state, act.move)

\* C17: score_move returns -1000 for every legal move of a pawn or a queen
\* that leads to a position finished by a rule of outcome DRAW (stalemate,
\* fivefold repetition, seventy-five moves, insufficient material), and
\* +1000 for every one that leads to a position finished decisively.
C17_FinishingMovesScoreByOutcome ==
    is_asked(game_state) =>
        \A move \in pawn_and_queen_moves(game_state) :
            ( /\ is_move_legal(game_state, move)
              /\ compute_result(copy_with_act_applied(game_state, MoveAct(move, FALSE))).is_finished )
            => score_move(game_state, move)
                 = IF rule_outcome(
                          compute_result(copy_with_act_applied(game_state, MoveAct(move, FALSE)))
                              .ended_by_rule) = Outcome_DRAW
                   THEN Score(-1000)
                   ELSE Score(1000)

(***************************************************************************)
(* The claims on aborting and on the prompts                               *)
(***************************************************************************)

\* C18: abort_game is idempotent and permanent.  Once the abort flag is set
\* it stays set and the game state no longer changes; a select_act call
\* that starts afterwards makes no callback; and every abort_game call, the
\* first and the later ones, with a human player or an AI player on turn,
\* invokes cancel_turn_to_act on the player of the team on turn, completes
\* (nothing else happens in it, no exception leaves it) and leaves the flag
\* set.
C18_AbortIsIdempotentAndPermanent ==
    [][ /\ game_stopped => (game_stopped' /\ game_state' = game_state)
        /\ (game_stopped /\ last_call'.op = "select_act") => calls' = <<>>
        /\ last_call'.op = "abort_game" =>
               /\ game_stopped'
               /\ calls' = <<cancel_turn_to_act(playing_team(game_state))>> ]_vars

\* The teams prompted by the callbacks cs, one entry for each prompt.
prompts_of(cs) == SelectSeq(cs, LAMBDA c : c.callback = "on_turn_to_act")

\* The step applies an act: the history grows by one state.
act_is_applied ==
    /\ last_call'.op = "select_act"
    /\ game_state # <<>>
    /\ Len(game_state') = Len(game_state) + 1

C20_InitialPositionHasTwentyMoves ==
    (game_state # <<>> /\ game_state = GameState(with_initial_material)) =>
        LET legal_moves == compute_legal_moves_for_playing_team(game_state)
        IN  /\ Cardinality(legal_moves) = 20
            /\ \A move \in legal_moves : move.moved_piece.team = "W"
            /\ Cardinality({move \in legal_moves : move.moved_piece.symbol = "P"}) = 16
            /\ Cardinality({move \in legal_moves : move.moved_piece.symbol = "N"}) = 4
            /\ Cardinality({Squares(move) : move \in legal_moves}) = 20

\* start_game has built the initial position, and White has moves in it.
C20_Witness ==
    /\ last_call.op = "start_game"
    /\ game_state = GameState(with_initial_material)
    /\ playing_team(game_state) = "W"
    /\ has_valid_moves(game_state)

(***************************************************************************)
(* The claims on the pieces and on the game state                          *)
(***************************************************************************)

\* The squares diagonally ahead of a pawn, as far as they lie on the board.
forward_diagonals(team, piece_position) ==
    {pos \in {<<piece_position[1] - 1, piece_position[2] + direction(team)>>,
              <<piece_position[1] + 1, piece_position[2] + direction(team)>>} :
       InRange(pos[1]) /\ InRange(pos[2])}

\* C21: for every pawn of the board, on whatever file, get_attacked_positions
\* returns exactly the squares diagonally ahead of it that lie on the board,
\* file 0 included, and never the square straight ahead; and is_king_checked
\* reports a king in check exactly when an enemy piece attacks it, a pawn
\* included.
C21_PawnAttacksBothForwardDiagonals ==
    game_state # <<>> =>
        /\ \A i \in 1..64 :
               board_of(game_state)[i].symbol = "P" =>
                   get_attacked_positions(board_of(game_state), board_of(game_state)[i], PosOf(i))
                       = forward_diagonals(board_of(game_state)[i].team, PosOf(i))
        /\ \A team \in {"W", "B"} :
               is_king_checked(board_of(game_state), team)
                   <=> king_in_check(board_of(game_state), team)

\* The side to move is stalemated: not in check, and without a move that
\* leaves its king out of check.
is_stalemated(current_state) ==
    /\ ~king_in_check(board_of(current_state), playing_team(current_state))
    /\ ~has_move_of_chess(current_state)

\* C22: in every state where the side to move is not in check and has no
\* legal move, compute_result reports the game finished by DrawByStalemate,
\* a rule of outcome DRAW; and it reports stalemate in no other state.
C22_StalemateReportedIffStalemated ==
    game_state # <<>> =>
        /\ is_stalemated(game_state) =>
               /\ compute_result(game_state).is_finished
               /\ compute_result(game_state).ended_by_rule = Rule("DrawByStalemate", "-")
               /\ rule_outcome(compute_result(game_state).ended_by_rule) = Outcome_DRAW
        /\ compute_result(game_state).ended_by_rule = Rule("DrawByStalemate", "-")
               => is_stalemated(game_state)

(***************************************************************************)
(* C23: the bookkeeping of GameState                                       *)
(***************************************************************************)

\* the number of acts applied since the root state
acts_applied(current_state) ==
    Cardinality({k \in 1..Len(current_state) : current_state[k].last_act # NoAct})

is_root(current_state) == previous_state(current_state) = <<>>

bookkeeping_is_consistent(current_state) ==
    /\ is_root(current_state) <=> last_act_of(current_state) = NoAct
    /\ is_root(current_state) => history_size(current_state) = 0
    /\ ~is_root(current_state) =>
           history_size(current_state) = 1 + history_size(previous_state(current_state))
    /\ history_size(current_state) = acts_applied(current_state)
    /\ playing_team(current_state) = "W" <=> acts_applied(current_state) % 2 = 0

\* C23: history_size is 0 for the root state and one more than the previous
\* state's otherwise, playing_team is White exactly when history_size is
\* even, previous_state is absent exactly when last_act is absent, and
\* copy_with_act_applied returns a new state whose previous_state is the
\* receiver, with the given act as last_act, leaving the receiver's board,
\* history_size, playing_team and last_act as they were.
C23_GameStateBookkeeping ==
    [][/\ game_state' # <<>> => bookkeeping_is_consistent(game_state')
       /\ (game_state # <<>> /\ game_state' # game_state) =>
              /\ game_state' = copy_with_act_applied(game_state, last_act_of(game_state'))
              /\ last_act_of(game_state') # NoAct
              /\ previous_state(game_state') = game_state
              /\ board_of(previous_state(game_state')) = board_of(game_state)
              /\ history_size(previous_state(game_state')) = history_size(game_state)
              /\ playing_team(previous_state(game_state')) = playing_team(game_state)
              /\ last_act_of(previous_state(game_state')) = last_act_of(game_state)
              /\ bookkeeping_is_consistent(previous_state(game_state'))]_vars

C23_Witness ==
    /\ game_state # <<>>
    /\ last_call.op = "select_act"
    /\ history_size(game_state) = 3
    /\ playing_team(game_state) = "B"
    /\ last_act_of(game_state).kind # "MoveAct"
    /\ board_of(game_state) = board_of(previous_state(game_state))

(***************************************************************************)
(* C24: the fallback of pick_act                                           *)
(***************************************************************************)

has_queen(board_state, team) ==
    \E i \in 1..64 : board_state[i] = Piece(team, "Q")

\* C24: when the player is asked in an unfinished state and no move of its
\* pawns and queens gets a score, pick_act returns SurrenderAct if the
\* player's team has no queen on the board, whatever queens the opponent
\* has, and otherwise a MoveAct with one of the legal moves.
C24_FallbackSurrendersWithoutOwnQueen ==
    ( /\ is_asked(game_state)
      /\ ~compute_result(game_state).is_finished
      /\ move_with_score(game_state) = {} )
    => IF ~has_queen(board_of(game_state), playing_team(game_state))
       THEN pick_act(game_state) = {SurrenderAct}
       ELSE /\ pick_act(game_state) # {}
            /\ \A act \in pick_act(game_state) :
                   /\ act.kind = "MoveAct"
                   /\ is_in_legal_moves(game_state, act.move)

(***************************************************************************)
(* C25: the outcome of a finished game                                     *)
(***************************************************************************)

\* ai_testing.py, run_game(i): the classification of a finished game, seen
\* from the player that has White when i is even and Black when i is odd.
run_game(i, result) ==
    IF GameResult_outcome(result) = Outcome_DRAW
    THEN "draw"
    ELSE IF (IF i % 2 = 0 THEN Outcome_WHITE_WINS ELSE Outcome_BLACK_WINS)
                = GameResult_outcome(result)
         THEN "victory"
         ELSE "defeat"

is_draw_rule(rule) ==
    rule.cls \in {"DrawByStalemate", "DrawByFivefoldRepetition",
                  "DrawBySeventyFiveMoveRule", "DrawByInsufficientMaterial"}

\* C25: for every finished state, GameResult.outcome is the outcome of the
\* rule that ended the game: Outcome.DRAW when a draw rule ended it, which
\* run_game classifies as "draw" and not as "defeat", and WHITE_WINS or
\* BLACK_WINS when a checkmate ended it.
C25_OutcomeOfFinishedGameIsTheRulesOutcome ==
    (game_state # <<>> /\ compute_result(game_state).is_finished) =>
        LET result == compute_result(game_state)
            rule == result.ended_by_rule
        IN  /\ GameResult_outcome(result) = rule_outcome(rule)
            /\ is_draw_rule(rule) =>
                   /\ GameResult_outcome(result) = Outcome_DRAW
                   /\ \A i \in 0..1 : run_game(i, result) = "draw"
            /\ rule.cls = "VictoryByCheckmate" =>
                   GameResult_outcome(result) =
                       (IF rule.team = "W" THEN Outcome_WHITE_WINS
                                           ELSE Outcome_BLACK_WINS)

(***************************************************************************)
(* C26: the kings stay on the board                                        *)
(***************************************************************************)

kings_of(board_state, team) ==
    {i \in 1..64 : board_state[i] = Piece(team, "K")}

\* C26: every state the arbiter reaches from the initial position by the
\* acts it accepts has exactly one White king and exactly one Black king
\* on the board.
C26_BothKingsStayOnTheBoard ==
    game_state # <<>> =>
        /\ Cardinality(kings_of(board_of(game_state), "W")) = 1
        /\ Cardinality(kings_of(board_of(game_state), "B")) = 1

(***************************************************************************)
(* C27: a threefold repetition stays claimable                             *)
(***************************************************************************)

\* Some position of the history, the current one or an earlier one, had
\* occurred three times when it was reached.
some_position_occurred_thrice(current_state) ==
    \E k \in 1..Len(current_state) : position_occurred(StateAt(current_state, k), 3)

\* C27: once any position has occurred three times anywhere in the history,
\* DrawClaimableByThreefoldRepetition is applicable in that state and in
\* every later state, also where the current position has occurred fewer
\* than three times.
C27_ThreefoldRepetitionStaysApplicable ==
    (game_state # <<>> /\ some_position_occurred_thrice(game_state)) =>
        RepetitionRule_is_applicable(
            num_repetitions_of(Rule("DrawClaimableByThreefoldRepetition", "-")),
            game_state)

C27_Witness ==
    /\ game_state # <<>>
    /\ last_call.op = "select_act"
    /\ some_position_occurred_thrice(game_state)
    /\ ~position_occurred(game_state, 3)
    /\ RepetitionRule_is_applicable(3, game_state)

(***************************************************************************)
(* C28: acts that are not moves                                            *)
(***************************************************************************)

is_non_move_act(act) == act.kind \in {"ClaimDrawAct", "SurrenderAct"}

\* The states of the history that the no-progress rules count.
counted_without_progress(current_state) ==
    {k \in 1..Len(current_state) :
       /\ last_move_of(StateAt(current_state, k)) # NoMove
       /\ ~is_pawn_move_or_piece_capture(last_move_of(StateAt(current_state, k)))}

\* Every entry of the sequence `moves` is an entry of the sequence `others`.
entries_are_among(moves, others) ==
    \A m \in 1..Len(moves) : \E n \in 1..Len(others) : moves[m] = others[n]

\* C28: a state made by copy_with_act_applied from a ClaimDrawAct or a
\* SurrenderAct has the board of the state before, a history_size one
\* larger, the other team to play and no last_move; the act adds no entry
\* to what the history checks read: no en passant capture answers it,
\* historical_moves holds no move that was not there before, and the
\* no-progress rules count no state more than before.
C28_NonMoveActsAddNothingToTheHistory ==
    (game_state # <<>> /\ is_non_move_act(last_act_of(game_state))) =>
        LET before == previous_state(game_state)
        IN  /\ game_state = copy_with_act_applied(before, last_act_of(game_state))
            /\ board_of(game_state) = board_of(before)
            /\ history_size(game_state) = history_size(before) + 1
            /\ playing_team(game_state) = get_opponent_of(playing_team(before))
            /\ last_move_of(game_state) = NoMove
            /\ ~\E move \in possible_moves_of_playing_team(game_state) : is_en_passant(move)
            /\ entries_are_among(historical_moves(game_state), historical_moves(before))
            /\ Len(historical_moves(game_state)) <= Len(historical_moves(before))
            /\ counted_without_progress(game_state) = counted_without_progress(before)

C28_Witness ==
    /\ game_state # <<>>
    /\ last_call.op = "select_act"
    /\ is_non_move_act(last_act_of(game_state))
    /\ historical_moves(previous_state(game_state)) # <<>>
    /\ counted_without_progress(previous_state(game_state)) # {}
    /\ playing_team(game_state) = "W"

(***************************************************************************)
(* C29: pawns and the far rank                                             *)
(***************************************************************************)

far_rank(team) == IF team = "W" THEN 7 ELSE 0

pawns_on_end_ranks(board_state) ==
    {i \in positions_and_pieces(board_state) :
       board_state[i].symbol = "P" /\ PosOf(i)[2] \in {0, 7}}

\* The moves of a pawn of the playing team onto its far rank.
pawn_moves_onto_far_rank(current_state) ==
    {move \in possible_moves_of_playing_team(current_state) :
       /\ move.moved_piece.symbol = "P"
       /\ move.to_pos[2] = far_rank(playing_team(current_state))}

\* C29: in every state reached from the initial position no pawn stands on
\* rank 0 or rank 7; every move of a pawn onto the far rank is a
\* PawnPromotionMove, there is one for each of the Rook, Knight, Bishop and
\* Queen of the mover's team and no other, and the board after it has the
\* promoted piece on the destination square and no pawn on the square left.
C29_PawnsPromoteOnTheFarRank ==
    game_state # <<>> =>
        /\ pawns_on_end_ranks(board_of(game_state)) = {}
        /\ \A move \in pawn_moves_onto_far_rank(game_state) :
               /\ move.kind = "PawnPromotionMove"
               /\ move.promoted_piece.team = playing_team(game_state)
               /\ {other.promoted_piece.symbol :
                     other \in {o \in pawn_moves_onto_far_rank(game_state) :
                                  o.from_pos = move.from_pos /\ o.to_pos = move.to_pos}}
                    = {"R", "N", "B", "Q"}
               /\ Cardinality({o \in pawn_moves_onto_far_rank(game_state) :
                                 o.from_pos = move.from_pos /\ o.to_pos = move.to_pos}) = 4
               /\ piece_at(compute_over_board_state(move, board_of(game_state)), move.to_pos)
                    = move.promoted_piece
               /\ piece_at(compute_over_board_state(move, board_of(game_state)), move.from_pos)
                    = None

C29_Witness ==
    /\ game_state # <<>>
    /\ last_call.op = "select_act"
    /\ last_move_of(game_state) # NoMove
    /\ last_move_of(game_state).kind = "PawnPromotionMove"
    /\ last_move_of(game_state).captured_piece # None
    /\ last_move_of(game_state).promoted_piece = Piece("B", "N")
    /\ piece_at(board_of(game_state), last_move_of(game_state).to_pos) = Piece("B", "N")

(***************************************************************************)
(* C30: the arbiter lock                                                   *)
(***************************************************************************)

\* Thread t waits in `with self._lock:` for the lock that its own
\* unfinished select_act holds: no other thread releases it, so the wait
\* never ends.
waits_for_own_lock(t) == threads[t].pc = "acquire" /\ lock = t

\* C30: select_act never blocks forever on the arbiter lock, also when a
\* player's on_turn_to_act calls select_act on the calling thread: no
\* thread waits for a lock it holds itself, and the lock is free whenever
\* no call is inside the arbiter.
C30_SelectActNeverBlocksForever ==
    /\ \A t \in Threads : ~waits_for_own_lock(t)
    /\ ((\A t \in Threads : threads[t].pc = "idle") /\ abort_pc # "cancel")
           => lock = "free"

====
